---- MODULE Spec2Model ----
(***************************************************************************)
(* State-machine model of the TOPSIS profile-selection core:               *)
(*   - OptimalAssignment (src/src/core/optimal_assignment.py)              *)
(*   - SkillTransformer / WeightGenerator (src/src/core/skill_transformer) *)
(*   - ProfileProcessor (src/src/core/profile_processor.py)                *)
(*                                                                         *)
(* Conventions.                                                            *)
(*   Python None is the empty set, a present value x is {x} (None/Some).   *)
(*   A Python dict is the sequence of its items in insertion order.        *)
(*   Row and column labels of a DataFrame are pairwise distinct; rows are  *)
(*   identified with their positions 1..n.                                 *)
(*   Scores and skill levels are integers (fixed-point values); sums and   *)
(*   comparisons are exact.  A quotient a/b is kept as the pair            *)
(*   [num |-> a, den |-> b].                                               *)
(***************************************************************************)
EXTENDS Integers, Sequences, FiniteSets, TLC

\* ------------------------------------------------------------------ bounds
MaxN == 3          \* most activities / profiles of a score matrix
MaxCells == 6      \* most cells (activities x profiles) of a score matrix
MaxScore == 1      \* scores are drawn from 0..MaxScore
MaxLevel == 1      \* skill levels are drawn from 0..MaxLevel
MaxProfiles == 2   \* most profiles (rows) of a profile matrix
MaxFrameCells == 4 \* most cells (rows x columns) of a profile or activity matrix
MaxLen == 2        \* longest vector of required levels classified directly
MaxAlpha == 2      \* alpha of hybrid_weights is drawn from k / MaxAlpha, k in 0..MaxAlpha
MaxAlternatives == 3 \* most alternatives (rows) of an engine's decision matrix
MaxEngineCells == 6  \* most cells (rows x columns) of an engine's decision matrix
MaxWeight == 1     \* weights handed to an engine are drawn from -1..MaxWeight
MaxCustomLen == 1  \* longest vector of custom weights handed to process_activity
MaxActivities == 3  \* most rows of an activity matrix handed to process_all_activities
MaxBatchSkills == 1  \* most skill columns of such a matrix

\* ----------------------------------------------------------------- helpers
None == {}
Some(x) == {x}
Get(o) == CHOOSE x \in o : TRUE

Min(a, b) == IF a <= b THEN a ELSE b

Frac(a, b) == [num |-> a, den |-> b]

Range(s) == {s[k] : k \in DOMAIN s}

RECURSIVE SumSeq(_)
SumSeq(s) == IF s = <<>> THEN 0 ELSE Head(s) + SumSeq(Tail(s))

VARIABLES
    \* OptimalAssignment instance
    n_activities, n_profiles, full_results_df,
    assignment, assignment_method, total_score,
    \* the last call made on the solver and what came of it
    call,        \* [op, arg] of the last call
    raised,      \* exception the last call ended with, "none" if it returned
    ran,         \* solver methods the last call entered, in order
    result,      \* dict returned by the last solve-family call that returned
    out,         \* value the last call returned, when it was an accessor
    solved,      \* TRUE once a solve-family call has returned
    \* a SkillTransformer instance and a ProfileProcessor instance, None
    \* while none has been constructed
    transformer, processor,
    \* a TopsisEngine instance, None while none has been constructed
    engine

asgVars == <<n_activities, n_profiles, full_results_df, assignment,
             assignment_method, total_score, call, raised, ran, result, out,
             solved>>

procVars == <<transformer, processor, engine>>

\* the solver's variables other than the record of the last call
asgVarsRest == <<n_activities, n_profiles, full_results_df, assignment,
                 assignment_method, total_score, ran, result, solved>>

ForceMethods == {"None", "hungarian", "greedy", "other"}

\* =================================================== OptimalAssignment ====

\* check_dimensions: first component of the returned tuple
check_dimensions == n_activities = n_profiles

\* mutant of Negate: the cost matrix is handed over without the sign change
Negate_Forgotten(m) == m

\* -cost_matrix
Negate(m) == [i \in DOMAIN m |-> [j \in DOMAIN m[i] |-> 0 - m[i][j]]]

\* one-to-one pairings of min(p, q) rows and columns of a p x q matrix,
\* each a set of <<row, column>> pairs
Matchings(p, q) ==
    IF p <= q
    THEN { {<<i, f[i]>> : i \in 1..p} :
             f \in { g \in [1..p -> 1..q] :
                       \A a \in 1..p : \A b \in 1..p : a # b => g[a] # g[b] } }
    ELSE { {<<f[j], j>> : j \in 1..q} :
             f \in { g \in [1..q -> 1..p] :
                       \A a \in 1..q : \A b \in 1..q : a # b => g[a] # g[b] } }

RECURSIVE CostOf(_, _)
CostOf(c, m) ==
    IF m = {} THEN 0
    ELSE LET e == CHOOSE x \in m : TRUE
         IN c[e[1]][e[2]] + CostOf(c, m \ {e})

\* scipy.optimize.linear_sum_assignment: the pairings of minimum total cost;
\* which of several minimal pairings is returned is up to the library.
linear_sum_assignment(c, p, q) ==
    LET all == Matchings(p, q)
        costs == {CostOf(c, m) : m \in all}
        best == CHOOSE x \in costs : \A y \in costs : x <= y
    IN { m \in all : CostOf(c, m) = best }

\* zip(row_ind, col_ind): the pairs by ascending row index
RECURSIVE RowOrder(_)
RowOrder(m) ==
    IF m = {} THEN <<>>
    ELSE LET e == CHOOSE x \in m : \A y \in m : x[1] <= y[1]
         IN <<e>> \o RowOrder(m \ {e})

\* mutant of Entry: the two positions are recorded the wrong way round
Entry_PositionsSwapped(a, p, s) ==
    [activity |-> a, profile |-> p, score |-> s,
     activity_idx |-> p, profile_idx |-> a]

\* the item assignment[activity] of both solvers
Entry(a, p, s) ==
    [activity |-> a, profile |-> p, score |-> s,
     activity_idx |-> a, profile_idx |-> p]

\* loop of solve_hungarian building the assignment dict
RECURSIVE HungarianLoop(_, _)
HungarianLoop(pairs, cost_matrix) ==
    IF pairs = <<>> THEN <<>>
    ELSE LET e == Head(pairs)
         IN <<Entry(e[1], e[2], cost_matrix[e[1]][e[2]])>>
              \o HungarianLoop(Tail(pairs), cost_matrix)

Scores(asg) == [k \in DOMAIN asg |-> asg[k].score]

\* outcome of solve_hungarian for the pairing m the library returned
HungarianOutcome(m) ==
    LET asg == HungarianLoop(RowOrder(m), full_results_df)
        tot == SumSeq(Scores(asg))
    IN [assignment |-> asg,
        method |-> "hungarian",
        total_score |-> tot,
        raised |-> IF Len(asg) = 0 THEN "ZeroDivisionError" ELSE "none",
        ret |-> [method |-> "hungarian",
                 assignment |-> asg,
                 total_score |-> tot,
                 average_score |-> Frac(tot, Len(asg)),
                 n_assignments |-> Len(asg)]]

solve_hungarian ==
    { HungarianOutcome(m) :
        m \in linear_sum_assignment(Negate(full_results_df),
                                    n_activities, n_profiles) }

\* candidates list of solve_greedy, activity-major
Candidates ==
    [k \in 1..(n_activities * n_profiles) |->
        LET a == ((k - 1) \div n_profiles) + 1
            p == ((k - 1) % n_profiles) + 1
        IN [activity |-> a, profile |-> p, score |-> full_results_df[a][p]]]

\* list.sort(key=score, reverse=True): stable, descending
RECURSIVE InsertDesc(_, _)
InsertDesc(x, s) ==
    IF s = <<>> THEN <<x>>
    ELSE IF Head(s).score >= x.score
         THEN <<Head(s)>> \o InsertDesc(x, Tail(s))
         ELSE <<x>> \o s

RECURSIVE SortDesc(_)
SortDesc(s) ==
    IF s = <<>> THEN <<>>
    ELSE InsertDesc(s[Len(s)], SortDesc(SubSeq(s, 1, Len(s) - 1)))

\* mutant of GreedyFree: only the activity is looked up
GreedyFree_ActivityOnly(c, acc) ==
    c.activity \notin acc.assigned_activities

\* a candidate is committed when neither side is committed yet
GreedyFree(c, acc) ==
    c.activity \notin acc.assigned_activities
        /\ c.profile \notin acc.assigned_profiles

\* greedy loop of solve_greedy, with its break
RECURSIVE GreedyLoop(_, _)
GreedyLoop(cands, acc) ==
    IF cands = <<>> THEN acc
    ELSE LET c == Head(cands)
         IN IF GreedyFree(c, acc)
            THEN LET acc2 ==
                       [assignment |-> Append(acc.assignment,
                                              Entry(c.activity, c.profile, c.score)),
                        assigned_activities |-> acc.assigned_activities \cup {c.activity},
                        assigned_profiles |-> acc.assigned_profiles \cup {c.profile},
                        total_score |-> acc.total_score + c.score]
                 IN IF Cardinality(acc2.assigned_activities) = n_activities
                    THEN acc2
                    ELSE GreedyLoop(Tail(cands), acc2)
            ELSE GreedyLoop(Tail(cands), acc)

GreedyOutcome ==
    LET acc == GreedyLoop(SortDesc(Candidates),
                          [assignment |-> <<>>, assigned_activities |-> {},
                           assigned_profiles |-> {}, total_score |-> 0])
        asg == acc.assignment
    IN [assignment |-> asg,
        method |-> "greedy",
        total_score |-> acc.total_score,
        raised |-> "none",
        ret |-> [method |-> "greedy",
                 assignment |-> asg,
                 total_score |-> acc.total_score,
                 average_score |-> IF Len(asg) # 0
                                   THEN Frac(acc.total_score, Len(asg))
                                   ELSE Frac(0, 1),
                 n_assignments |-> Len(asg),
                 unassigned_profiles |-> (1..n_profiles) \ acc.assigned_profiles]]

solve_greedy == { GreedyOutcome }

\* mutant of Dispatch: the automatic choice tests the dimensions the wrong
\* way round
Dispatch_AutoInverted(force_method) ==
    IF force_method = "hungarian"
    THEN IF ~check_dimensions THEN "raise" ELSE "hungarian"
    ELSE IF force_method = "greedy" THEN "greedy"
    ELSE IF check_dimensions THEN "greedy" ELSE "hungarian"

\* mutant of Dispatch: a forced hungarian skips the dimension test
Dispatch_ForcedUnchecked(force_method) ==
    IF force_method = "hungarian" THEN "hungarian"
    ELSE IF force_method = "greedy" THEN "greedy"
    ELSE IF check_dimensions THEN "hungarian" ELSE "greedy"

\* the solver method solve(force_method) dispatches to, "raise" for the
\* ValueError of a forced hungarian on mismatched dimensions
Dispatch(force_method) ==
    IF force_method = "hungarian"
    THEN IF ~check_dimensions THEN "raise" ELSE "hungarian"
    ELSE IF force_method = "greedy" THEN "greedy"
    ELSE IF check_dimensions THEN "hungarian" ELSE "greedy"

\* the solver method `method` ran within the call op(arg) and ended with
\* outcome o
Ran(o, method, op, arg) ==
    /\ assignment' = Some(o.assignment)
    /\ assignment_method' = o.method
    /\ total_score' = Some(o.total_score)
    /\ call' = [op |-> op, arg |-> arg]
    /\ raised' = o.raised
    /\ ran' = <<method>>
    /\ result' = IF o.raised = "none" THEN Some(o.ret) ELSE result
    /\ solved' = (solved \/ o.raised = "none")
    /\ out' = None
    /\ UNCHANGED <<n_activities, n_profiles, full_results_df>>
    /\ UNCHANGED procVars

SolveHungarian ==
    \E o \in solve_hungarian : Ran(o, "hungarian", "solve_hungarian", "None")

SolveGreedy ==
    \E o \in solve_greedy : Ran(o, "greedy", "solve_greedy", "None")

Solve ==
    \E force_method \in ForceMethods :
        LET d == Dispatch(force_method)
        IN \/ /\ d = "raise"
              /\ call' = [op |-> "solve", arg |-> force_method]
              /\ raised' = "ValueError"
              /\ ran' = <<>>
              /\ out' = None
              /\ UNCHANGED <<n_activities, n_profiles, full_results_df,
                             assignment, assignment_method, total_score,
                             result, solved>>
              /\ UNCHANGED procVars
           \/ /\ d = "hungarian"
              /\ \E o \in solve_hungarian :
                    Ran(o, "hungarian", "solve", force_method)
           \/ /\ d = "greedy"
              /\ \E o \in solve_greedy :
                    Ran(o, "greedy", "solve", force_method)

\* an accessor was called: it returned v, or raised exc
Accessed(op, exc, v) ==
    /\ call' = [op |-> op, arg |-> "None"]
    /\ raised' = exc
    /\ ran' = <<>>
    /\ out' = IF exc = "none" THEN Some(v) ELSE None
    /\ UNCHANGED <<n_activities, n_profiles, full_results_df, assignment,
                   assignment_method, total_score, result, solved>>
    /\ UNCHANGED procVars

\* mutant of assignment_matrix: the whole row of an assigned activity is set
assignment_matrix_WholeRow(asg) ==
    [a \in 1..n_activities |->
        [p \in 1..n_profiles |->
            IF \E k \in DOMAIN asg : asg[k].activity = a THEN 1 ELSE 0]]

\* the 0/1 DataFrame of get_assignment_matrix
assignment_matrix(asg) ==
    [a \in 1..n_activities |->
        [p \in 1..n_profiles |->
            IF \E k \in DOMAIN asg : asg[k].activity = a /\ asg[k].profile = p
            THEN 1 ELSE 0]]

\* the score DataFrame of get_assignment_scores
score_matrix(asg) ==
    [a \in 1..n_activities |->
        [p \in 1..n_profiles |->
            IF \E k \in DOMAIN asg : asg[k].activity = a /\ asg[k].profile = p
            THEN (CHOOSE s \in {asg[k].score : k \in
                        {h \in DOMAIN asg : asg[h].activity = a /\ asg[h].profile = p}} : TRUE)
            ELSE 0]]

GetAssignmentMatrix ==
    IF assignment = None
    THEN Accessed("get_assignment_matrix", "ValueError", 0)
    ELSE Accessed("get_assignment_matrix", "none",
                  [kind |-> "matrix", value |-> assignment_matrix(Get(assignment))])

GetAssignmentScores ==
    IF assignment = None
    THEN Accessed("get_assignment_scores", "ValueError", 0)
    ELSE Accessed("get_assignment_scores", "none",
                  [kind |-> "matrix", value |-> score_matrix(Get(assignment))])

\* print_results: prints a notice and returns when nothing is stored;
\* otherwise divides total_score by len(assignment)
PrintResults ==
    IF assignment = None
    THEN Accessed("print_results", "none",
                  [kind |-> "printed", value |-> "No assignment computed yet"])
    ELSE IF Len(Get(assignment)) = 0
         THEN Accessed("print_results", "ZeroDivisionError", 0)
         ELSE Accessed("print_results", "none",
                       [kind |-> "printed", value |-> "summary"])

\* save_results: sort_values('Activity') on the frame built from no rows
\* has no such column
SaveResults ==
    IF assignment = None
    THEN Accessed("save_results", "ValueError", 0)
    ELSE IF Len(Get(assignment)) = 0
         THEN Accessed("save_results", "KeyError", 0)
         ELSE Accessed("save_results", "none",
                       [kind |-> "saved", value |-> "csv"])

AsgInit ==
    /\ n_activities \in 0..MaxN
    /\ n_profiles \in 0..MaxN
    /\ n_activities * n_profiles <= MaxCells
    /\ full_results_df \in [1..n_activities -> [1..n_profiles -> 0..MaxScore]]
    /\ assignment = None
    /\ assignment_method = "None"
    /\ total_score = None
    /\ call = [op |-> "__init__", arg |-> "None"]
    /\ raised = "none"
    /\ ran = <<>>
    /\ result = None
    /\ out = None
    /\ solved = FALSE
    /\ transformer = None
    /\ processor = None
    /\ engine = None

AsgNext ==
    \/ SolveHungarian
    \/ SolveGreedy
    \/ Solve
    \/ GetAssignmentMatrix
    \/ GetAssignmentScores
    \/ PrintResults
    \/ SaveResults

vars == <<asgVars, procVars>>

Init == AsgInit

Next == AsgNext

Spec == Init /\ [][Next]_vars

\* ============================== SkillTransformer and ProfileProcessor ====

SkillNames == {"s1", "s2"}

Levels == 0..MaxLevel

\* threshold arguments: the levels and one value on either side of them
Thresholds == (0 - 1)..(MaxLevel + 1)

\* mutant of ThresholdValid: only the lower bound is tested
ThresholdValid_LowerOnly(t) ==
    t.min_threshold <= t.threshold

\* _validate_threshold returns (rather than raises)
ThresholdValid(t) ==
    t.min_threshold <= t.threshold /\ t.threshold <= t.max_threshold

\* mutant of Beneficial: a level equal to the threshold counts as Cost
Beneficial_Strict(skill_level, threshold) == skill_level > threshold

\* the test of the loop of determine_criteria_types
Beneficial(skill_level, threshold) == skill_level >= threshold

\* determine_criteria_types: 1 = beneficial, 0 = non-beneficial
determine_criteria_types(required_skill_levels, threshold) ==
    [i \in 1..Len(required_skill_levels) |->
        IF Beneficial(required_skill_levels[i], threshold) THEN 1 ELSE 0]

\* np.min of the values of a DataFrame: None stands for NaN, which is what
\* numpy returns as soon as one cell is NaN (a cell the file left empty)
np_min(df) ==
    LET cells == UNION {Range(df.values[r]) : r \in DOMAIN df.values}
    IN IF df.isna # {} THEN None
       ELSE Some(CHOOSE x \in cells : \A y \in cells : x <= y)

\* np.max of the values of a DataFrame
np_max(df) ==
    LET cells == UNION {Range(df.values[r]) : r \in DOMAIN df.values}
    IN IF df.isna # {} THEN None
       ELSE Some(CHOOSE x \in cells : \A y \in cells : x >= y)

\* validate_skill_levels on df.values: first component of the returned
\* tuple.  A comparison with NaN is false.
validate_skill_levels(t, df) ==
    LET min_val == np_min(df)
        max_val == np_max(df)
    IN /\ ~(min_val # None /\ Get(min_val) < t.min_threshold)
       /\ ~(max_val # None /\ Get(max_val) > t.max_threshold)

\* WeightGenerator.uniform_weights
uniform_weights(n_criteria) == [i \in 1..n_criteria |-> Frac(1, n_criteria)]

\* np.maximum(weights, 0.1), in tenths
Floored(level) == IF 10 * level >= 1 THEN 10 * level ELSE 1

\* WeightGenerator.requirement_based_weights
requirement_based_weights(required_levels, threshold) ==
    LET weights == [i \in DOMAIN required_levels |-> Floored(required_levels[i])]
    IN [i \in DOMAIN required_levels |-> Frac(weights[i], SumSeq(weights))]

WeightStrategies == {"uniform", "requirement_based", "other"}

\* ========================================================= TopsisEngine ====
\* Exact arithmetic.  A column j of the decision matrix has the squared norm
\* rad[j]; a normalized or weighted cell is kept as the integer num that stands
\* for num / (den * sqrt(rad[j])), so that cells of one column compare by num.
\* A squared distance is the fraction [num, den].  A standard-formula
\* coefficient S = E- / (E+ + E-) is kept as the reduced pair [minus2, plus2]
\* with minus2 : plus2 = E-^2 : E+^2, which S is a strictly increasing function
\* of; [0, 1] is S = 0 and [1, 0] is S = 1.

RECURSIVE GCD(_, _)
GCD(a, b) == IF b = 0 THEN a ELSE GCD(b, a % b)

RECURSIVE GCDSeq(_)
GCDSeq(s) == IF s = <<>> THEN 0 ELSE GCD(Head(s), GCDSeq(Tail(s)))

\* the fraction a / b in lowest terms
Reduced(a, b) == Frac(a \div GCD(a, b), b \div GCD(a, b))

RECURSIVE ProdSeq(_)
ProdSeq(s) == IF s = <<>> THEN 1 ELSE Head(s) * ProdSeq(Tail(s))

MaxOf(S) == CHOOSE x \in S : \A y \in S : x >= y
MinOf(S) == CHOOSE x \in S : \A y \in S : x <= y

Column(m, j) == [i \in DOMAIN m |-> m[i][j]]

\* mutant of engine_inputs_valid: the direction tags are not looked at
engine_inputs_valid_AnyTag(decision_matrix, weights, criteria_types, alternative_names) ==
    /\ Len(weights) = Len(decision_matrix[1])
    /\ Len(criteria_types) = Len(decision_matrix[1])
    /\ Len(alternative_names) = Len(decision_matrix)
    /\ \A j \in DOMAIN weights : ~(weights[j].num < 0)
    /\ \E j \in DOMAIN weights : weights[j].num # 0

\* TopsisEngine._validate_inputs returns (rather than raises)
engine_inputs_valid(decision_matrix, weights, criteria_types, alternative_names) ==
    /\ Len(weights) = Len(decision_matrix[1])
    /\ Len(criteria_types) = Len(decision_matrix[1])
    /\ Len(alternative_names) = Len(decision_matrix)
    /\ \A j \in DOMAIN criteria_types : criteria_types[j] \in {0, 1}
    /\ \A j \in DOMAIN weights : ~(weights[j].num < 0)
    \* np.sum(self.weights) == 0: of weights none of which is negative
    /\ \E j \in DOMAIN weights : weights[j].num # 0

\* self.weights / np.sum(self.weights): numerators over the common
\* denominator den
normalized_weights(weights) ==
    LET common == ProdSeq([j \in DOMAIN weights |-> weights[j].den])
        nums == [j \in DOMAIN weights |->
                    weights[j].num * (common \div weights[j].den)]
        g == GCDSeq(nums)
    IN [num |-> [j \in DOMAIN nums |-> nums[j] \div g],
        den |-> SumSeq(nums) \div g]

\* column_norms ** 2, a zero norm replaced by 1
column_norms_sq(decision_matrix) ==
    [j \in DOMAIN decision_matrix[1] |->
        LET sq == SumSeq([i \in DOMAIN decision_matrix |->
                            decision_matrix[i][j] * decision_matrix[i][j]])
        IN IF sq = 0 THEN 1 ELSE sq]

\* normalize_matrix: cell [i][j] stands for num[i][j] / sqrt(rad[j])
normalize_matrix(decision_matrix) ==
    [num |-> decision_matrix, rad |-> column_norms_sq(decision_matrix)]

\* apply_weights: cell [i][j] stands for num[i][j] / (den * sqrt(rad[j]))
apply_weights(normalized_matrix, w) ==
    [num |-> [i \in DOMAIN normalized_matrix.num |->
                [j \in DOMAIN normalized_matrix.num[i] |->
                    normalized_matrix.num[i][j] * w.num[j]]],
     rad |-> normalized_matrix.rad,
     den |-> w.den]

\* mutant of determine_ideal_solutions: every criterion is treated as
\* Beneficial
determine_ideal_solutions_AllBeneficial(weighted_matrix, criteria_types) ==
    [best |-> [j \in DOMAIN criteria_types |->
                 MaxOf(Range(Column(weighted_matrix.num, j)))],
     worst |-> [j \in DOMAIN criteria_types |->
                 MinOf(Range(Column(weighted_matrix.num, j)))]]

\* determine_ideal_solutions
determine_ideal_solutions(weighted_matrix, criteria_types) ==
    [best |-> [j \in DOMAIN criteria_types |->
                 IF criteria_types[j] = 1
                 THEN MaxOf(Range(Column(weighted_matrix.num, j)))
                 ELSE MinOf(Range(Column(weighted_matrix.num, j)))],
     worst |-> [j \in DOMAIN criteria_types |->
                 IF criteria_types[j] = 1
                 THEN MinOf(Range(Column(weighted_matrix.num, j)))
                 ELSE MaxOf(Range(Column(weighted_matrix.num, j)))]]

\* np.sum(diff ** 2, axis=1): the squared distance of every row to a point
squared_distances(weighted_matrix, point) ==
    LET all == ProdSeq(weighted_matrix.rad)
    IN [i \in DOMAIN weighted_matrix.num |->
          Reduced(SumSeq([j \in DOMAIN point |->
                            (weighted_matrix.num[i][j] - point[j])
                              * (weighted_matrix.num[i][j] - point[j])
                              * (all \div weighted_matrix.rad[j])]),
                  weighted_matrix.den * weighted_matrix.den * all)]

\* calculate_distances (squared)
calculate_distances(weighted_matrix, ideal) ==
    [to_best |-> squared_distances(weighted_matrix, ideal.best),
     to_worst |-> squared_distances(weighted_matrix, ideal.worst)]

\* A coefficient of the variant formula, S = raw / max(raw), is kept as the
\* fraction S^2 in lowest terms.

FracLeq(x, y) == x.num * y.den <= y.num * x.den

\* x / y in lowest terms, y # 0
FracDiv(x, y) == Reduced(x.num * y.den, x.den * y.num)

\* np.max of a vector of fractions
MaxFrac(v) == CHOOSE x \in Range(v) : \A y \in Range(v) : FracLeq(y, x)

\* mutant of standard_proximity: a zero denominator is divided by as it is
standard_proximity_NoEpsilon(d) ==
    [i \in DOMAIN d.to_best |->
        LET minus2 == d.to_worst[i].num * d.to_best[i].den
            plus2 == d.to_best[i].num * d.to_worst[i].den
        IN IF minus2 = 0 /\ plus2 = 0 THEN [minus2 |-> 0, plus2 |-> 0]
           ELSE [minus2 |-> minus2 \div GCD(minus2, plus2),
                 plus2 |-> plus2 \div GCD(minus2, plus2)]]

\* calculate_proximity, standard formula; a denominator E+ + E- = 0 is
\* replaced by 1e-10, which leaves 0 / 1e-10 = 0
standard_proximity(d) ==
    [i \in DOMAIN d.to_best |->
        LET minus2 == d.to_worst[i].num * d.to_best[i].den
            plus2 == d.to_best[i].num * d.to_worst[i].den
        IN IF minus2 = 0 /\ plus2 = 0 THEN [minus2 |-> 0, plus2 |-> 1]
           ELSE [minus2 |-> minus2 \div GCD(minus2, plus2),
                 plus2 |-> plus2 \div GCD(minus2, plus2)]]

\* raw_proximity of the variant formula, squared
raw_proximity(d) ==
    LET max_distance_to_best == MaxFrac(d.to_best)
    IN [i \in DOMAIN d.to_best |->
          IF d.to_best[i].num # 0 THEN FracDiv(d.to_worst[i], d.to_best[i])
          ELSE IF max_distance_to_best.num # 0
               THEN FracDiv(d.to_worst[i], max_distance_to_best)
               ELSE Frac(1, 1)]

\* mutant of variant_proximity: the raw ratios are returned as they are
variant_proximity_Raw(d) == Some(raw_proximity(d))

\* calculate_proximity, variant formula: the coefficients it assigns, None
\* when max_prox = 0 and it assigns nothing
variant_proximity(d) ==
    LET raw == raw_proximity(d)
        max_prox == MaxFrac(raw)
    IN IF max_prox.num # 0
       THEN Some([i \in DOMAIN raw |-> FracDiv(raw[i], max_prox)])
       ELSE None

\* c1 <= c2 as coefficients of one formula
CoefLeq(c1, c2) ==
    IF "minus2" \in DOMAIN c1
    THEN c1.minus2 * c2.plus2 <= c2.minus2 * c1.plus2
    ELSE FracLeq(c1, c2)

\* np.argsort(coefficients): ascending, equal values in index order (the
\* insertion sort numpy applies to short arrays)
RECURSIVE ArgInsert(_, _, _)
ArgInsert(i, order, coefficients) ==
    IF order = <<>> THEN <<i>>
    ELSE IF CoefLeq(coefficients[Head(order)], coefficients[i])
         THEN <<Head(order)>> \o ArgInsert(i, Tail(order), coefficients)
         ELSE <<i>> \o order

RECURSIVE ArgSortUpTo(_, _)
ArgSortUpTo(n, coefficients) ==
    IF n = 0 THEN <<>>
    ELSE ArgInsert(n, ArgSortUpTo(n - 1, coefficients), coefficients)

argsort(coefficients) == ArgSortUpTo(Len(coefficients), coefficients)

Reverse(s) == [k \in DOMAIN s |-> s[Len(s) + 1 - k]]

\* mutant of get_ranking: the order of np.argsort is not reversed
get_ranking_Ascending(coefficients) == argsort(coefficients)

\* get_ranking: np.argsort(self.proximity_coefficients)[::-1]
get_ranking(coefficients) == Reverse(argsort(coefficients))

Formulas == {"standard", "variant", "other"}

\* TopsisEngine.__init__ once _validate_inputs has returned: the weights are
\* normalised and no stage has run
NewEngine(decision_matrix, weights, criteria_types, names, criteria_names, formula) ==
    [decision_matrix |-> decision_matrix,
     weights |-> normalized_weights(weights),
     criteria_types |-> criteria_types,
     alternative_names |-> names,
     criteria_names |-> criteria_names,
     proximity_formula |-> formula,
     normalized_matrix |-> None,
     weighted_matrix |-> None,
     ideal |-> None,
     distances |-> None,
     proximity_coefficients |-> None,
     ranking |-> None]

\* what a method leaves: the instance, and the exception it ended with
Left(self, exc) == [self |-> self, raised |-> exc]

\* rest applied to the value of x: a statement that binds x, then the rest
Then(x, rest(_)) == CHOOSE r \in {rest(v) : v \in {x}} : TRUE

\* self.normalize_matrix()
Normalized(self) ==
    [self EXCEPT !.normalized_matrix = Some(normalize_matrix(self.decision_matrix))]

\* self.apply_weights()
Weighted(self) ==
    Then(IF self.normalized_matrix = None THEN Normalized(self) ELSE self,
         LAMBDA s1 :
            [s1 EXCEPT !.weighted_matrix =
                Some(apply_weights(Get(s1.normalized_matrix), s1.weights))])

\* self.determine_ideal_solutions()
Idealized(self) ==
    Then(IF self.weighted_matrix = None THEN Weighted(self) ELSE self,
         LAMBDA s1 :
            [s1 EXCEPT !.ideal =
                Some(determine_ideal_solutions(Get(s1.weighted_matrix),
                                               s1.criteria_types))])

\* self.calculate_distances()
Distanced(self) ==
    Then(IF self.ideal = None THEN Idealized(self) ELSE self,
         LAMBDA s1 :
            [s1 EXCEPT !.distances =
                Some(calculate_distances(Get(s1.weighted_matrix), Get(s1.ideal)))])

\* calculate_proximity once the distances are stored
ProximateOn(s1) ==
    CASE s1.proximity_formula = "standard" ->
            Left([s1 EXCEPT !.proximity_coefficients =
                    Some(standard_proximity(Get(s1.distances)))], "none")
      [] s1.proximity_formula = "variant" ->
            Then(variant_proximity(Get(s1.distances)),
                 LAMBDA coefficients :
                    Left(IF coefficients # None
                         THEN [s1 EXCEPT !.proximity_coefficients = coefficients]
                         ELSE s1,
                         "none"))
      [] OTHER -> Left(s1, "ValueError")

\* self.calculate_proximity()
Proximate(self) ==
    Then(IF self.distances = None THEN Distanced(self) ELSE self, ProximateOn)

\* get_ranking once calculate_proximity has left p; np.argsort(None) ends with
\* an AxisError
RankedOn(p) ==
    IF p.raised # "none" THEN p
    ELSE IF p.self.proximity_coefficients = None THEN Left(p.self, "AxisError")
    ELSE Left([p.self EXCEPT !.ranking =
                 Some(get_ranking(Get(p.self.proximity_coefficients)))],
              "none")

\* self.get_ranking()
Ranked(self) ==
    Then(IF self.proximity_coefficients = None
         THEN Proximate(self) ELSE Left(self, "none"),
         RankedOn)

\* self.calculate(): every stage again, in order
Calculated(self) ==
    Then(Normalized(self), LAMBDA s1 :
    Then(Weighted(s1), LAMBDA s2 :
    Then(Idealized(s2), LAMBDA s3 :
    Then(Distanced(s3), LAMBDA s4 :
    Then(Proximate(s4), LAMBDA p :
         IF p.raised # "none" THEN p ELSE Ranked(p.self))))))

\* the dictionary get_results_dict builds from the stored results
results_dict(self) ==
    LET ranking == Get(self.ranking)
        coefficients == Get(self.proximity_coefficients)
        d == Get(self.distances)
    IN [ranked_results |->
            [k \in DOMAIN ranking |->
                [rank |-> k,
                 alternative |-> self.alternative_names[ranking[k]],
                 coefficient |-> coefficients[ranking[k]],
                 percentage |-> [times |-> 100, coefficient |-> coefficients[ranking[k]]],
                 distance_to_best |-> d.to_best[ranking[k]],
                 distance_to_worst |-> d.to_worst[ranking[k]]]],
        best_alternative |-> self.alternative_names[ranking[1]],
        best_coefficient |-> coefficients[ranking[1]],
        metadata |-> [n_alternatives |-> Len(self.alternative_names),
                      n_criteria |-> Len(self.criteria_names),
                      proximity_formula |-> self.proximity_formula,
                      criteria_names |-> self.criteria_names,
                      weights |-> self.weights,
                      criteria_types |-> self.criteria_types]]

\* self.get_results_dict(): calculate() runs when no coefficients are stored;
\* iterating a ranking that is None ends with a TypeError
get_results_dict(self) ==
    Then(IF self.proximity_coefficients = None
         THEN Calculated(self) ELSE Left(self, "none"),
         LAMBDA p :
            IF p.raised # "none" THEN p
            ELSE IF p.self.ranking = None THEN Left(p.self, "TypeError")
            ELSE p)

\* a DataFrame: its column labels in order, and its rows in order, every row
\* holding its values in the order of the columns
ColumnOrders ==
    { c \in UNION {[1..n -> SkillNames] : n \in 1..Cardinality(SkillNames)} :
        \A h \in DOMAIN c : \A k \in DOMAIN c : h # k => c[h] # c[k] }

Frames(max_rows) ==
    UNION { { [columns |-> c, values |-> v] :
                v \in [1..n -> [1..Len(c) -> Levels]] } :
            c \in ColumnOrders,
            n \in {k \in 1..max_rows : k * Cardinality(SkillNames) <= MaxFrameCells} }

\* SkillTransformer.__init__ (a behaviour follows one instance, so the
\* constructor is its first call)
NewSkillTransformer ==
    /\ call.op = "none"
    /\ \E threshold \in Thresholds, min_threshold \in Thresholds,
          max_threshold \in Thresholds :
        LET t == [threshold |-> threshold, min_threshold |-> min_threshold,
                  max_threshold |-> max_threshold]
        IN /\ call' = [op |-> "SkillTransformer", arg |-> t]
           /\ raised' = IF ThresholdValid(t) THEN "none" ELSE "ValueError"
           /\ transformer' = IF ThresholdValid(t) THEN Some(t) ELSE transformer
           /\ out' = None
           /\ UNCHANGED <<processor, engine, asgVarsRest>>

\* SkillTransformer.set_threshold: stores, then validates
SetThreshold ==
    /\ transformer # None
    /\ \E new_threshold \in Thresholds :
        LET t == [Get(transformer) EXCEPT !.threshold = new_threshold]
        IN /\ call' = [op |-> "set_threshold", arg |-> new_threshold]
           /\ transformer' = Some(t)
           /\ raised' = IF ThresholdValid(t) THEN "none" ELSE "ValueError"
           /\ out' = None
           /\ UNCHANGED <<processor, engine, asgVarsRest>>

\* SkillTransformer.determine_criteria_types on the standalone instance
DetermineCriteriaTypes ==
    /\ transformer # None
    /\ \E levels \in UNION {[1..n -> Levels] : n \in 0..MaxLen} :
        /\ call' = [op |-> "determine_criteria_types", arg |-> levels]
        /\ raised' = "none"
        /\ out' = Some(determine_criteria_types(levels, Get(transformer).threshold))
        /\ UNCHANGED <<transformer, processor, engine, asgVarsRest>>

\* a DataFrame with its row labels (the index); isna is the set of the cells
\* <<row, column>> that hold NaN
Indexed(df, index) ==
    [columns |-> df.columns, values |-> df.values, index |-> index, isna |-> {}]

\* profile matrices: the profiles are labelled by their position
ProfileFrames ==
    { Indexed(df, [i \in DOMAIN df.values |-> i]) : df \in Frames(MaxProfiles) }

ActivityNames == {"a1", "a2"}

\* activity matrices of one activity
ActivityFrames == { Indexed(df, <<"a1">>) : df \in Frames(1) }

\* custom weights handed to process_activity
CustomWeights ==
    UNION { [1..n -> {Frac(x, 1) : x \in (0 - 1)..MaxWeight}] : n \in 1..MaxCustomLen }

\* _validate_data returns (rather than raises)
validate_data(t, profiles_df, activities_df) ==
    /\ Range(profiles_df.columns) = Range(activities_df.columns)
    /\ validate_skill_levels(t, profiles_df)
    /\ validate_skill_levels(t, activities_df)

\* ProfileProcessor.__init__ on the given arguments: the transformer is built
\* first, then the data is validated
Construct(profiles_df, activities_df, threshold, min_threshold, max_threshold, formula) ==
    LET t == [threshold |-> threshold, min_threshold |-> min_threshold,
              max_threshold |-> max_threshold]
        ok == ThresholdValid(t) /\ validate_data(t, profiles_df, activities_df)
    IN /\ call' = [op |-> "ProfileProcessor",
                   arg |-> [threshold |-> threshold,
                            min_threshold |-> min_threshold,
                            max_threshold |-> max_threshold,
                            profiles_df |-> profiles_df,
                            activities_df |-> activities_df]]
       /\ raised' = IF ok THEN "none" ELSE "ValueError"
       /\ processor' =
            IF ok
            THEN Some([profiles_df |-> profiles_df,
                       activities_df |-> activities_df,
                       threshold |-> threshold,
                       min_threshold |-> min_threshold,
                       max_threshold |-> max_threshold,
                       proximity_formula |-> formula,
                       skill_transformer |-> t,
                       results |-> <<>>])
            ELSE processor
       /\ out' = None
       /\ UNCHANGED <<transformer, engine, asgVarsRest>>

\* ProfileProcessor.__init__ on one activity (a behaviour follows one
\* instance, so the constructor is its first call)
NewProfileProcessor ==
    /\ call.op = "none"
    /\ \E profiles_df \in ProfileFrames, activities_df \in ActivityFrames,
          threshold \in Thresholds, min_threshold \in Levels,
          max_threshold \in Levels, formula \in Formulas :
        Construct(profiles_df, activities_df, threshold, min_threshold,
                  max_threshold, formula)

\* self.profile_names
profile_names(pr) == pr.profiles_df.index

\* self.activity_names
activity_names(pr) == pr.activities_df.index

\* the rows of activities_df labelled activity_name: .loc[activity_name]
RowsOf(pr, activity_name) ==
    {k \in DOMAIN pr.activities_df.index : pr.activities_df.index[k] = activity_name}

\* what process_activity hands to TopsisEngine for a label of one row: the
\* decision matrix in the column order of profiles_df; weights, criteria types
\* and criteria names in the column order of activities_df
EngineArguments(pr, activity_name, weights, weight_strategy) ==
    LET required_skills ==
            pr.activities_df.values[CHOOSE k \in RowsOf(pr, activity_name) : TRUE]
        skill_names == pr.activities_df.columns
    IN [decision_matrix |-> pr.profiles_df.values,
        weights |-> IF weights # None THEN Get(weights)
                    ELSE IF weight_strategy = "uniform"
                         THEN uniform_weights(Len(skill_names))
                         ELSE requirement_based_weights(required_skills, pr.threshold),
        criteria_types |-> determine_criteria_types(required_skills,
                                                    pr.skill_transformer.threshold),
        alternative_names |-> profile_names(pr),
        criteria_names |-> skill_names,
        required_skills |-> required_skills]

\* self.results[activity_name] = results
Stored(results, activity, r) ==
    IF \E k \in DOMAIN results : results[k].activity = activity
    THEN [k \in DOMAIN results |->
            IF results[k].activity = activity
            THEN [activity |-> activity, results |-> r] ELSE results[k]]
    ELSE Append(results, [activity |-> activity, results |-> r])

\* what a method of the processor leaves: the instance, the exception it
\* ended with, the value it returns
Done(self, exc, v) == [self |-> self, raised |-> exc, value |-> v]

\* process_activity once calculate() has left the engine as `left`: build the
\* dictionary, store it, return it
ProcessedOn(pr, activity_name, e, weight_strategy, left) ==
    IF left.raised # "none" THEN Done(pr, left.raised, None)
    ELSE Then(results_dict(left.self), LAMBDA d :
         Then([ranked_results |-> d.ranked_results,
               best_alternative |-> d.best_alternative,
               best_coefficient |-> d.best_coefficient,
               metadata |-> d.metadata,
               activity_name |-> activity_name,
               required_skills |-> e.required_skills,
               criteria_types |-> e.criteria_types,
               weight_strategy |-> weight_strategy],
              LAMBDA results :
                Done([pr EXCEPT !.results = Stored(pr.results, activity_name, results)],
                     "none", results)))

\* process_activity from the creation of the engine on
Processed(pr, activity_name, e, weight_strategy) ==
    IF ~engine_inputs_valid(e.decision_matrix, e.weights, e.criteria_types,
                            e.alternative_names)
    THEN Done(pr, "ValueError", None)
    ELSE Then(Calculated(NewEngine(e.decision_matrix, e.weights, e.criteria_types,
                                   e.alternative_names, e.criteria_names,
                                   pr.proximity_formula)),
              LAMBDA left : ProcessedOn(pr, activity_name, e, weight_strategy, left))

\* ProfileProcessor.process_activity.  A label of several rows makes
\* required_skills two-dimensional, which determine_criteria_types or the
\* engine's validation ends with a ValueError.
process_activity(pr, activity_name, weights, weight_strategy) ==
    IF RowsOf(pr, activity_name) = {} THEN Done(pr, "ValueError", None)
    ELSE IF Cardinality(RowsOf(pr, activity_name)) > 1 THEN Done(pr, "ValueError", None)
    ELSE IF weights = None /\ weight_strategy \notin {"uniform", "requirement_based"}
         THEN Done(pr, "ValueError", None)
    ELSE Then(EngineArguments(pr, activity_name, weights, weight_strategy),
              LAMBDA e : Processed(pr, activity_name, e, weight_strategy))

\* a call of a method of the processor
ProcessorCall(op, arg, done) ==
    /\ call' = [op |-> op, arg |-> arg]
    /\ processor' = Some(done.self)
    /\ raised' = done.raised
    /\ out' = IF done.raised = "none" THEN Some(done.value) ELSE None
    /\ UNCHANGED <<transformer, engine, asgVarsRest>>

\* the weights and the strategy a caller passes: a strategy alone, or custom
\* weights with the strategy left at its default
WeightChoices ==
    { [weights |-> None, weight_strategy |-> ws] : ws \in WeightStrategies }
        \cup { [weights |-> Some(w), weight_strategy |-> "uniform"] : w \in CustomWeights }

\* ProfileProcessor.process_activity
ProcessActivity ==
    /\ processor # None
    /\ \E activity_name \in ActivityNames, w \in WeightChoices :
        \E done \in {process_activity(Get(processor), activity_name, w.weights,
                                      w.weight_strategy)} :
            ProcessorCall("process_activity",
                          [activity |-> activity_name, weights |-> w.weights,
                           weight_strategy |-> w.weight_strategy],
                          done)

\* the top_n arguments of get_ranking_matrix
TopNs == 0..(MaxProfiles + 1)

\* ProfileProcessor.get_ranking_matrix: one row per stored activity, holding
\* the first top_n ranked results; a cell is the text
\* "alternative (coefficient:.4f)", kept as the pair it is formatted from
get_ranking_matrix(pr, top_n) ==
    IF pr.results = <<>> THEN Done(pr, "ValueError", None)
    ELSE Done(pr, "none",
              [k \in DOMAIN pr.results |->
                 LET ranked == pr.results[k].results.ranked_results
                 IN [Activity |-> pr.results[k].activity,
                     ranks |-> [i \in 1..Min(top_n, Len(ranked)) |->
                                  [alternative |-> ranked[i].alternative,
                                   coefficient |-> ranked[i].coefficient]]]])

\* ProfileProcessor.get_full_results_matrix: one row per stored activity,
\* holding under every profile name the coefficient of the ranked result of
\* that profile
get_full_results_matrix(pr) ==
    IF pr.results = <<>> THEN Done(pr, "ValueError", None)
    ELSE Done(pr, "none",
              [k \in DOMAIN pr.results |->
                 LET ranked == pr.results[k].results.ranked_results
                 IN [activity |-> pr.results[k].activity,
                     row |-> [name \in {ranked[i].alternative : i \in DOMAIN ranked} |->
                                ranked[CHOOSE i \in DOMAIN ranked :
                                        /\ ranked[i].alternative = name
                                        /\ \A h \in DOMAIN ranked :
                                             ranked[h].alternative = name => h <= i
                                      ].coefficient]]])

\* ProfileProcessor.get_ranking_matrix
GetRankingMatrix ==
    /\ processor # None
    /\ \E top_n \in TopNs :
        \E done \in {get_ranking_matrix(Get(processor), top_n)} :
            ProcessorCall("get_ranking_matrix", top_n, done)

\* ProfileProcessor.get_full_results_matrix
GetFullResultsMatrix ==
    /\ processor # None
    /\ \E done \in {get_full_results_matrix(Get(processor))} :
        ProcessorCall("get_full_results_matrix", "None", done)

RECURSIVE ProcessedAll(_, _, _, _, _)
\* the loop of process_all_activities over the activity names still to do
ProcessedAll(pr, names, weights, weight_strategy, all_results) ==
    IF names = <<>> THEN Done(pr, "none", all_results)
    ELSE Then(process_activity(pr, Head(names), weights, weight_strategy),
              LAMBDA d :
                IF d.raised # "none" THEN Done(d.self, d.raised, None)
                ELSE Then(Stored(all_results, Head(names), d.value),
                          LAMBDA stored :
                            ProcessedAll(d.self, Tail(names), weights,
                                         weight_strategy, stored)))

\* ProfileProcessor.process_all_activities
process_all_activities(pr, weights, weight_strategy) ==
    ProcessedAll(pr, activity_names(pr), weights, weight_strategy, <<>>)

\* ProfileProcessor.process_all_activities
ProcessAllActivities ==
    /\ processor # None
    /\ \E w \in WeightChoices :
        \E done \in {process_all_activities(Get(processor), w.weights,
                                            w.weight_strategy)} :
            ProcessorCall("process_all_activities",
                          [weights |-> w.weights, weight_strategy |-> w.weight_strategy],
                          done)

\* matrices of up to max_rows rows and MaxBatchSkills skill columns
BatchFrames(max_rows) ==
    UNION { UNION { { [columns |-> c, values |-> v] :
                        v \in [1..n -> [1..Len(c) -> Levels]] } :
                    n \in {k \in 1..max_rows : k * Len(c) <= MaxFrameCells} } :
            c \in {o \in ColumnOrders : Len(o) <= MaxBatchSkills} }

\* activity matrices of several rows as pd.read_csv(index_col=0) delivers
\* them: nothing keeps two rows from bearing the same label.  The label of the
\* first row is "a1" (the labels are interchangeable).
BatchActivityFrames ==
    UNION { { Indexed(df, index) :
                index \in {x \in [DOMAIN df.values -> ActivityNames] : x[1] = "a1"} } :
            df \in BatchFrames(MaxActivities) }

ProfileNames == {"p1", "p2"}

\* profile matrices as pd.read_csv(index_col=0) delivers them: two rows may
\* bear the same profile name as well.  The first row is labelled "p1".
BatchProfileFrames ==
    UNION { { Indexed(df, index) :
                index \in {x \in [DOMAIN df.values -> ProfileNames] : x[1] = "p1"} } :
            df \in BatchFrames(MaxProfiles) }

\* ProfileProcessor.__init__ on several activities, with the default interval
\* [0, MaxLevel] for the levels
NewBatchProcessor ==
    /\ call.op = "none"
    /\ \E profiles_df \in BatchProfileFrames, activities_df \in BatchActivityFrames,
          threshold \in Levels, formula \in Formulas :
        Construct(profiles_df, activities_df, threshold, 0, MaxLevel, formula)

\* the cells <<row, column>> of a DataFrame
CellsOf(df) == {<<r, c>> : r \in DOMAIN df.values, c \in DOMAIN df.columns}

\* DataFrames of one row as pd.read_csv delivers them: a cell the file left
\* empty is NaN (its entry in values is a placeholder, 0)
DataFrames ==
    UNION { { [df EXCEPT !.isna = isna] :
                isna \in { m \in SUBSET CellsOf(df) :
                            \A p \in m : df.values[p[1]][p[2]] = 0 } } :
            df \in ActivityFrames }

\* ProfileProcessor.__init__ on matrices that may have empty cells
NewProfileProcessorOnData ==
    /\ call.op = "none"
    /\ \E profiles_df \in DataFrames, activities_df \in DataFrames,
          threshold \in Levels, min_threshold \in Levels,
          max_threshold \in Levels :
        Construct(profiles_df, activities_df, threshold, min_threshold,
                  max_threshold, "standard")

ProcInit ==
    /\ n_activities = 0
    /\ n_profiles = 0
    /\ full_results_df = <<>>
    /\ assignment = None
    /\ assignment_method = "None"
    /\ total_score = None
    /\ ran = <<>>
    /\ result = None
    /\ solved = FALSE
    /\ call = [op |-> "none", arg |-> "None"]
    /\ raised = "none"
    /\ out = None
    /\ transformer = None
    /\ processor = None
    /\ engine = None

ProcNext ==
    \/ NewSkillTransformer
    \/ SetThreshold
    \/ DetermineCriteriaTypes
    \/ NewProfileProcessor
    \/ ProcessActivity
    \/ GetRankingMatrix
    \/ GetFullResultsMatrix

\* a SkillTransformer used on its own, or a ProfileProcessor
SpecProc == ProcInit /\ [][ProcNext]_vars

BatchNext ==
    \/ NewBatchProcessor
    \/ ProcessAllActivities
    \/ GetRankingMatrix
    \/ GetFullResultsMatrix

\* a ProfileProcessor used on all its activities at once
SpecBatch == ProcInit /\ [][BatchNext]_vars

\* the constructor of the processor alone, on matrices with empty cells
SpecData == ProcInit /\ [][NewProfileProcessorOnData]_vars

\* ================================== WeightGenerator, called on its own ====
\* A weight is a fraction, or NaN where numpy divides 0.0 by 0.0 (a warning,
\* never an exception).  Scores and levels are non-negative here, so a vector
\* whose sum is 0 holds zeros only.

NaN == Frac(0, 0)

Vectors == UNION {[1..n -> Levels] : n \in 0..MaxLen}

Alphas == {Frac(k, MaxAlpha) : k \in 0..MaxAlpha}

\* values / np.sum(values)
OverSum(values) ==
    [i \in DOMAIN values |->
        IF SumSeq(values) = 0 THEN NaN ELSE Frac(values[i], SumSeq(values))]

\* WeightGenerator.importance_based_weights
importance_based_weights(importance_scores) == OverSum(importance_scores)

\* numpy broadcasting of two vectors: equal lengths, or one of length 1
Broadcastable(x, y) == Len(x) = Len(y) \/ Len(x) = 1 \/ Len(y) = 1

BroadcastLen(x, y) == IF Len(x) = 1 THEN Len(y) ELSE Len(x)

At(x, i) == IF Len(x) = 1 THEN x[1] ELSE x[i]

\* WeightGenerator.hybrid_weights, for broadcastable arguments:
\* alpha * req_weights + (1 - alpha) * imp_weights over the denominator
\* alpha.den * sum(required_levels) * sum(importance_scores), then over its sum
hybrid_weights(required_levels, importance_scores, alpha) ==
    LET req_sum == SumSeq(required_levels)
        imp_sum == SumSeq(importance_scores)
        n == BroadcastLen(required_levels, importance_scores)
        hybrid == [i \in 1..n |->
                     alpha.num * At(required_levels, i) * imp_sum
                       + (alpha.den - alpha.num) * At(importance_scores, i) * req_sum]
    IN IF req_sum = 0 \/ imp_sum = 0
       THEN [i \in 1..n |-> NaN]
       ELSE OverSum(hybrid)

\* a call of a static method: nothing but the record of the call changes
StaticCall(op, arg, exc, v) ==
    /\ call' = [op |-> op, arg |-> arg]
    /\ raised' = exc
    /\ out' = IF exc = "none" THEN Some(v) ELSE None
    /\ UNCHANGED <<procVars, asgVarsRest>>

\* WeightGenerator.uniform_weights; np.ones refuses a negative dimension
UniformWeights ==
    \E n_criteria \in (0 - 1)..MaxLen :
        StaticCall("uniform_weights", n_criteria,
                   IF n_criteria < 0 THEN "ValueError" ELSE "none",
                   uniform_weights(n_criteria))

ImportanceBasedWeights ==
    \E importance_scores \in Vectors :
        StaticCall("importance_based_weights", importance_scores, "none",
                   importance_based_weights(importance_scores))

RequirementBasedWeights ==
    \E required_levels \in Vectors, threshold \in Thresholds :
        StaticCall("requirement_based_weights",
                   [required_levels |-> required_levels, threshold |-> threshold],
                   "none",
                   requirement_based_weights(required_levels, threshold))

HybridWeights ==
    \E required_levels \in Vectors, importance_scores \in Vectors, alpha \in Alphas :
        StaticCall("hybrid_weights",
                   [required_levels |-> required_levels,
                    importance_scores |-> importance_scores,
                    alpha |-> alpha],
                   IF Broadcastable(required_levels, importance_scores)
                   THEN "none" ELSE "ValueError",
                   hybrid_weights(required_levels, importance_scores, alpha))

WeightsNext ==
    \/ UniformWeights
    \/ ImportanceBasedWeights
    \/ RequirementBasedWeights
    \/ HybridWeights

SpecWeights == ProcInit /\ [][WeightsNext]_vars

\* ===================================== TopsisEngine, called on its own ====

EngineMatrices ==
    UNION { UNION { [1..m -> [1..n -> Levels]] :
                    n \in {k \in 1..MaxLen : m * k <= MaxEngineCells} } :
            m \in 1..MaxAlternatives }

\* weights as the caller hands them over, negative ones among them
EngineWeights ==
    UNION { [1..n -> {Frac(x, 1) : x \in (0 - 1)..MaxWeight}] : n \in 0..MaxLen }

\* direction tags as the caller hands them over, 2 being no direction
EngineTypes == UNION { [1..n -> 0..2] : n \in 0..MaxLen }


\* alternative_names and criteria_names left to their defaults, Alt_i and
\* Criterion_i
DefaultNames(n) == [i \in 1..n |-> i]

\* TopsisEngine.__init__ (a behaviour follows one instance, so the
\* constructor is its first call)
NewTopsisEngine ==
    /\ call.op = "none"
    /\ \E decision_matrix \in EngineMatrices, weights \in EngineWeights,
          criteria_types \in EngineTypes, formula \in Formulas :
        LET names == DefaultNames(Len(decision_matrix))
            ok == engine_inputs_valid(decision_matrix, weights, criteria_types, names)
        IN /\ call' = [op |-> "TopsisEngine",
                       arg |-> [decision_matrix |-> decision_matrix,
                                weights |-> weights,
                                criteria_types |-> criteria_types]]
           /\ raised' = IF ok THEN "none" ELSE "ValueError"
           /\ engine' = IF ok
                        THEN Some(NewEngine(decision_matrix, weights, criteria_types,
                                            names, DefaultNames(Len(weights)),
                                            formula))
                        ELSE engine
           /\ out' = None
           /\ UNCHANGED <<transformer, processor, asgVarsRest>>

\* a call of a method of the engine that leaves `left` and, when it returns,
\* returns v
EngineCall(op, left, v) ==
    /\ call' = [op |-> op, arg |-> "None"]
    /\ engine' = Some(left.self)
    /\ raised' = left.raised
    /\ out' = IF left.raised = "none" THEN Some(v) ELSE None
    /\ UNCHANGED <<transformer, processor, asgVarsRest>>

NormalizeMatrix ==
    /\ engine # None
    /\ \E self \in {Normalized(Get(engine))} :
        EngineCall("normalize_matrix", Left(self, "none"), self.normalized_matrix)

ApplyWeights ==
    /\ engine # None
    /\ \E self \in {Weighted(Get(engine))} :
        EngineCall("apply_weights", Left(self, "none"), self.weighted_matrix)

DetermineIdealSolutions ==
    /\ engine # None
    /\ \E self \in {Idealized(Get(engine))} :
        EngineCall("determine_ideal_solutions", Left(self, "none"), self.ideal)

CalculateDistances ==
    /\ engine # None
    /\ \E self \in {Distanced(Get(engine))} :
        EngineCall("calculate_distances", Left(self, "none"), self.distances)

CalculateProximity ==
    /\ engine # None
    /\ \E left \in {Proximate(Get(engine))} :
        EngineCall("calculate_proximity", left, left.self.proximity_coefficients)

GetRanking ==
    /\ engine # None
    /\ \E left \in {Ranked(Get(engine))} :
        EngineCall("get_ranking", left, left.self.ranking)

Calculate ==
    /\ engine # None
    /\ \E left \in {Calculated(Get(engine))} :
        EngineCall("calculate", left, left.self.proximity_coefficients)

GetResultsDict ==
    /\ engine # None
    /\ \E left \in {get_results_dict(Get(engine))} :
        EngineCall("get_results_dict", left,
                     IF left.raised = "none" THEN results_dict(left.self) ELSE None)

EngineNext ==
    \/ NewTopsisEngine
    \/ NormalizeMatrix
    \/ ApplyWeights
    \/ DetermineIdealSolutions
    \/ CalculateDistances
    \/ CalculateProximity
    \/ GetRanking
    \/ Calculate
    \/ GetResultsDict

SpecEngine == ProcInit /\ [][EngineNext]_vars

\* ============================================ claims on OptimalAssignment ==

Activities(asg) == {asg[k].activity : k \in DOMAIN asg}
Profiles(asg) == {asg[k].profile : k \in DOMAIN asg}

\* no activity and no profile occurs in two items
OneToOne(asg) ==
    \A h \in DOMAIN asg : \A k \in DOMAIN asg :
        h # k => (asg[h].activity # asg[k].activity
                    /\ asg[h].profile # asg[k].profile)

\* total score of the pairing i -> f[i]
PairingTotal(f) == SumSeq([i \in DOMAIN f |-> full_results_df[i][f[i]]])

\* the one-to-one pairings of all activities with all profiles (square case)
Pairings ==
    { f \in [1..n_activities -> 1..n_profiles] :
        \A a \in DOMAIN f : \A b \in DOMAIN f : a # b => f[a] # f[b] }

PerfectAndOptimal(r) ==
    /\ r.n_assignments = n_activities
    /\ Len(r.assignment) = n_activities
    /\ OneToOne(r.assignment)
    /\ Activities(r.assignment) = 1..n_activities
    /\ Profiles(r.assignment) = 1..n_profiles
    /\ \A f \in Pairings : r.total_score >= PairingTotal(f)

\* C1: for every square score matrix, solve_hungarian returns exactly p pairs
\* with every activity and every profile exactly once, and its total_score is
\* at least the total of every other one-to-one pairing.
C1_HungarianPerfectOptimal ==
    (call.op = "solve_hungarian" /\ n_activities = n_profiles)
        => (raised = "none" /\ result # None /\ PerfectAndOptimal(Get(result)))

\* C1, the part that holds: whenever solve_hungarian returns on a square
\* matrix, what it returns is a perfect pairing of maximum total.
C1_HungarianOptimalWhenReturned ==
    (ran = <<"hungarian">> /\ n_activities = n_profiles /\ raised = "none")
        => PerfectAndOptimal(Get(result))

\* items committed before position k
Before(asg, k) == SubSeq(asg, 1, k - 1)

\* the k-th item has the highest score among the pairs whose activity and
\* profile were both free when it was committed
BestFree(asg, k) ==
    \A a \in 1..n_activities : \A p \in 1..n_profiles :
        (a \notin Activities(Before(asg, k)) /\ p \notin Profiles(Before(asg, k)))
            => full_results_df[a][p] <= asg[k].score

\* C2: solve_greedy returns a pairing with no activity and no profile in two
\* pairs, min(p, q) pairs, every pair the best among the pairs still free when
\* it was committed, and unassigned_profiles the profiles in no pair.
C2_GreedyMaximalMatching ==
    (ran = <<"greedy">>)
        => /\ raised = "none"
           /\ result # None
           /\ LET r == Get(result)
              IN /\ OneToOne(r.assignment)
                 /\ Len(r.assignment) = Min(n_activities, n_profiles)
                 /\ \A k \in DOMAIN r.assignment :
                        /\ r.assignment[k].score =
                             full_results_df[r.assignment[k].activity][r.assignment[k].profile]
                        /\ BestFree(r.assignment, k)
                 /\ r.unassigned_profiles = (1..n_profiles) \ Profiles(r.assignment)

\* C2 witness: a greedy solve of a 2 x 3 matrix that had to pass over a
\* candidate and left a profile unassigned
C2_Witness ==
    /\ ran = <<"greedy">>
    /\ n_activities = 2 /\ n_profiles = 3
    /\ Len(Get(result).assignment) = 2
    /\ Get(result).assignment[2].score < Get(result).assignment[1].score
    /\ Cardinality(Get(result).unassigned_profiles) = 1

\* C3: solve('greedy') runs the heuristic whatever the shape; solve() runs the
\* exact method when activities = profiles and the heuristic otherwise; the
\* returned 'method' and the stored assignment_method name the method that ran.
C3_SolveSelectsMethod ==
    (call.op = "solve")
        => /\ call.arg = "greedy" => ran = <<"greedy">>
           /\ call.arg = "None" =>
                ran = IF n_activities = n_profiles
                      THEN <<"hungarian">> ELSE <<"greedy">>
           /\ ran # <<>> => assignment_method = ran[1]
           /\ (ran # <<>> /\ raised = "none") => Get(result).method = ran[1]

\* C3 witness: an automatic solve of a square matrix that ran the exact method
C3_Witness ==
    /\ call = [op |-> "solve", arg |-> "None"]
    /\ n_activities = 2 /\ n_profiles = 2
    /\ ran = <<"hungarian">>
    /\ raised = "none"
    /\ Get(result).method = "hungarian"

\* C4: solve('hungarian') on a non-square matrix raises, runs no solver and
\* leaves assignment, assignment_method and total_score as they were.
C4_ForcedHungarianMismatch ==
    [][(call' = [op |-> "solve", arg |-> "hungarian"]
          /\ n_activities # n_profiles)
        => (/\ raised' = "ValueError"
            /\ ran' = <<>>
            /\ assignment' = assignment
            /\ assignment_method' = assignment_method
            /\ total_score' = total_score)]_vars

\* C4 witness: the forced exact solve was refused on a solver that holds an
\* earlier (greedy) solution
C4_Witness ==
    /\ call = [op |-> "solve", arg |-> "hungarian"]
    /\ raised = "ValueError"
    /\ n_activities # n_profiles
    /\ assignment # None
    /\ assignment_method = "greedy"

Accessors ==
    {"get_assignment_matrix", "get_assignment_scores", "save_results",
     "print_results"}

\* C5: before any solve has completed every accessor fails with an error;
\* after a successful solve every accessor succeeds.
C5_AccessorsNeedSolved ==
    (call.op \in Accessors)
        => /\ ~solved => raised = "ValueError"
           /\ solved => raised = "none"

\* C6: on a square matrix the total_score solve_hungarian returns is at least
\* the total_score solve_greedy returns.
C6_HungarianAtLeastGreedy ==
    (ran = <<"hungarian">> /\ n_activities = n_profiles /\ raised = "none")
        => Get(result).total_score >= GreedyOutcome.ret.total_score

\* C6 witness: a square matrix on which the exact total is strictly larger
C6_Witness ==
    /\ ran = <<"hungarian">>
    /\ n_activities = 2 /\ n_profiles = 2
    /\ raised = "none"
    /\ Get(result).total_score > GreedyOutcome.ret.total_score

RowSum(m, a) == SumSeq(m[a])
ColSum(m, p) == SumSeq([a \in DOMAIN m |-> m[a][p]])
Ones(m) == SumSeq([a \in DOMAIN m |-> RowSum(m, a)])

\* C7: after a successful solve the matrix of get_assignment_matrix holds only
\* 0 and 1, row and column sums are at most 1, the number of ones is
\* n_assignments, and a cell is 1 exactly for the pairs of the assignment.
C7_AssignmentMatrixIsMatching ==
    (call.op = "get_assignment_matrix" /\ solved)
        => /\ raised = "none"
           /\ out # None
           /\ LET m == Get(out).value
                  asg == Get(assignment)
              IN /\ \A a \in 1..n_activities : \A p \in 1..n_profiles :
                        /\ m[a][p] \in {0, 1}
                        /\ m[a][p] = 1 <=>
                             (\E k \in DOMAIN asg :
                                 asg[k].activity = a /\ asg[k].profile = p)
                 /\ \A a \in 1..n_activities : RowSum(m, a) <= 1
                 /\ \A p \in 1..n_profiles : ColSum(m, p) <= 1
                 /\ Ones(m) = Get(result).n_assignments

\* C7 witness: the matrix of a 3 x 2 solve, with two ones
C7_Witness ==
    /\ call.op = "get_assignment_matrix"
    /\ solved
    /\ raised = "none"
    /\ n_activities = 3 /\ n_profiles = 2
    /\ Ones(Get(out).value) = 2

\* ===================== claims on SkillTransformer and ProfileProcessor ====

\* the processor pr with the columns of its activity matrix reordered by perm,
\* every value kept under its own skill name
ReorderedActivities(pr, perm) ==
    [pr EXCEPT !.activities_df.columns =
                    [k \in DOMAIN perm |-> pr.activities_df.columns[perm[k]]],
               !.activities_df.values =
                    [r \in DOMAIN pr.activities_df.values |->
                        [k \in DOMAIN perm |-> pr.activities_df.values[r][perm[k]]]]]

ColumnPermutations(df) ==
    { f \in [DOMAIN df.columns -> DOMAIN df.columns] :
        \A h \in DOMAIN f : \A k \in DOMAIN f : h # k => f[h] # f[k] }

\* position of the column of profiles_df labelled name
ProfileColumn(pr, name) ==
    CHOOSE j \in DOMAIN pr.profiles_df.columns : pr.profiles_df.columns[j] = name

\* direction and weight the engine applies to the profile column of a skill:
\* the engine pairs decision_matrix column j with criteria_types[j], weights[j]
Applied(pr, e, name) ==
    [direction |-> e.metadata.criteria_types[ProfileColumn(pr, name)],
     weight |-> Frac(e.metadata.weights.num[ProfileColumn(pr, name)],
                     e.metadata.weights.den)]

SameFrac(x, y) == x.num * y.den = y.num * x.den

SameApplied(x, y) ==
    x.direction = y.direction /\ SameFrac(x.weight, y.weight)

\* C8: reordering the skill columns of the activity matrix leaves the
\* criterion direction and weight applied to each skill, every proximity
\* coefficient and the ranking process_activity produces unchanged.
C8_ColumnOrderIrrelevant ==
    (call.op = "process_activity" /\ raised = "none")
        => LET pr == Get(processor)
               a == call.arg.activity
               ws == call.arg.weight_strategy
           IN \A perm \in ColumnPermutations(pr.activities_df) :
                LET reordered == process_activity(ReorderedActivities(pr, perm), a,
                                                 call.arg.weights, ws).value
                IN /\ \A name \in Range(pr.profiles_df.columns) :
                        SameApplied(Applied(pr, Get(out), name),
                                    Applied(pr, reordered, name))
                   /\ reordered.ranked_results = Get(out).ranked_results

\* C8, the part that holds: when both matrices list the skills in the same
\* order, every skill is given the direction of its own required level.
C8_AppliedWhenOrdersAgree ==
    (call.op = "process_activity" /\ raised = "none"
        /\ Get(processor).profiles_df.columns = Get(processor).activities_df.columns)
        => LET pr == Get(processor)
               e == Get(out)
           IN \A k \in DOMAIN pr.activities_df.columns :
                Applied(pr, e, pr.activities_df.columns[k]).direction =
                    (IF e.required_skills[k] >= pr.threshold
                     THEN 1 ELSE 0)

\* C9: determine_criteria_types returns a vector of the length of its input
\* whose entry i is 1 exactly when required_levels[i] >= threshold and 0
\* otherwise; a level equal to the threshold is Beneficial.
C9_ClassifyByThreshold ==
    (call.op = "determine_criteria_types")
        => /\ raised = "none"
           /\ out # None
           /\ LET ct == Get(out)
                  levels == call.arg
                  threshold == Get(transformer).threshold
              IN /\ Len(ct) = Len(levels)
                 /\ \A i \in DOMAIN levels :
                        /\ ct[i] \in {0, 1}
                        /\ ct[i] = 1 <=> levels[i] >= threshold
                        /\ levels[i] = threshold => ct[i] = 1

\* C9 witness: a vector with a level equal to the threshold (Beneficial) and a
\* level below it (Cost)
C9_Witness ==
    /\ call.op = "determine_criteria_types"
    /\ Len(call.arg) = 2
    /\ call.arg[1] = Get(transformer).threshold
    /\ Get(out)[1] = 1
    /\ call.arg[2] < Get(transformer).threshold
    /\ Get(out)[2] = 0

InRange(threshold, min_threshold, max_threshold) ==
    min_threshold <= threshold /\ threshold <= max_threshold

\* C10: constructing a SkillTransformer fails, and leaves no instance, exactly
\* when the threshold is below min_threshold or above max_threshold (the two
\* bounds are accepted); constructing a ProfileProcessor with such a threshold
\* fails as well, so every instance that exists was constructed with a
\* threshold in range.
C10_ConstructorChecksThreshold ==
    [][/\ call'.op = "SkillTransformer" =>
            IF InRange(call'.arg.threshold, call'.arg.min_threshold,
                       call'.arg.max_threshold)
            THEN raised' = "none" /\ transformer' = Some(call'.arg)
            ELSE raised' = "ValueError" /\ transformer' = None
       /\ (call'.op = "ProfileProcessor"
            /\ ~InRange(call'.arg.threshold, call'.arg.min_threshold,
                        call'.arg.max_threshold)) =>
            (raised' = "ValueError" /\ processor' = None)
       /\ (call'.op = "ProfileProcessor" /\ processor' # None) =>
            InRange(Get(processor').skill_transformer.threshold,
                    Get(processor').skill_transformer.min_threshold,
                    Get(processor').skill_transformer.max_threshold)
       /\ call'.op \in {"determine_criteria_types", "set_threshold"} =>
            transformer # None
       /\ call'.op = "process_activity" => processor # None
      ]_vars

\* C10 witness: a classification by an instance constructed with the
\* threshold equal to max_threshold
C10_Witness ==
    /\ call.op = "determine_criteria_types"
    /\ transformer # None
    /\ Get(transformer).threshold = Get(transformer).max_threshold
    /\ Get(transformer).min_threshold < Get(transformer).max_threshold

\* ============================================ claims on WeightGenerator ====

WeightOps ==
    {"uniform_weights", "importance_based_weights", "requirement_based_weights",
     "hybrid_weights"}

\* number of criteria the last call was made for
CriteriaAsked ==
    CASE call.op = "uniform_weights" -> call.arg
      [] call.op = "importance_based_weights" -> Len(call.arg)
      [] call.op = "requirement_based_weights" -> Len(call.arg.required_levels)
      [] call.op = "hybrid_weights" ->
            BroadcastLen(call.arg.required_levels, call.arg.importance_scores)

\* the sums the last call divides by
SumsDividedBy ==
    CASE call.op = "uniform_weights" -> {call.arg}
      [] call.op = "importance_based_weights" -> {SumSeq(call.arg)}
      [] call.op = "requirement_based_weights" -> {Len(call.arg.required_levels)}
      [] call.op = "hybrid_weights" ->
            {SumSeq(call.arg.required_levels), SumSeq(call.arg.importance_scores)}

\* w holds n weights, none negative, summing to 1
IsWeightVector(w, n) ==
    /\ Len(w) = n
    /\ \A i \in DOMAIN w : w[i] # NaN
    /\ \A i \in DOMAIN w : w[i].num >= 0 /\ w[i].den > 0
    /\ LET dens == [i \in DOMAIN w |-> w[i].den]
       IN SumSeq([i \in DOMAIN w |-> w[i].num * (ProdSeq(dens) \div w[i].den)])
            = ProdSeq(dens)

\* C11: every weight strategy returns, for every input it accepts, one weight
\* per criterion, every weight non-negative, the weights summing to 1.
C11_WeightsNormalized ==
    (call.op \in WeightOps /\ raised = "none")
        => IsWeightVector(Get(out), CriteriaAsked)

\* C11, the part that holds: the same whenever no sum the strategy divides by
\* is 0.
C11_NormalizedWhenSumsNonZero ==
    (call.op \in WeightOps /\ raised = "none" /\ 0 \notin SumsDividedBy)
        => IsWeightVector(Get(out), CriteriaAsked)

\* C12: importance_based_weights with scores summing to 0, and hybrid_weights
\* with required levels or scores summing to 0, raise instead of returning.
C12_ZeroSumRejected ==
    (\/ call.op = "importance_based_weights" /\ SumSeq(call.arg) = 0
     \/ call.op = "hybrid_weights"
            /\ (SumSeq(call.arg.required_levels) = 0
                \/ SumSeq(call.arg.importance_scores) = 0))
        => raised # "none"

\* ============================================== claims on TopsisEngine ====

\* sum of the weights as they were handed over (whole numbers)
GivenSum(weights) == SumSeq([j \in DOMAIN weights |-> weights[j].num])

\* the arguments of a constructor call that the engine has to refuse
Refused(a) ==
    LET n_criteria == Len(a.decision_matrix[1])
    IN \/ Len(a.weights) # n_criteria
       \/ Len(a.criteria_types) # n_criteria
       \/ \E j \in DOMAIN a.criteria_types : a.criteria_types[j] \notin {0, 1}
       \/ \E j \in DOMAIN a.weights : a.weights[j].num < 0
       \/ GivenSum(a.weights) = 0

InUnitInterval(c) == c.minus2 >= 0 /\ c.plus2 >= 0 /\ c.minus2 + c.plus2 > 0

\* c is the coefficient 0
IsZeroCoefficient(c) == c.minus2 = 0 /\ c.plus2 > 0

\* C14: with the standard formula every proximity coefficient lies in [0,1]
\* and is E- / (E+ + E-); an alternative whose two distances are both 0 has
\* the coefficient 0.
C14_StandardInUnitInterval ==
    (engine # None /\ Get(engine).proximity_formula = "standard"
        /\ Get(engine).proximity_coefficients # None)
        => LET self == Get(engine)
               c == Get(self.proximity_coefficients)
               d == Get(self.distances)
           IN /\ Len(c) = Len(self.decision_matrix)
              /\ \A i \in DOMAIN c :
                    /\ InUnitInterval(c[i])
                    /\ (d.to_best[i].num = 0 /\ d.to_worst[i].num = 0)
                            => IsZeroCoefficient(c[i])
                    /\ ~(d.to_best[i].num = 0 /\ d.to_worst[i].num = 0)
                            => c[i].minus2 * d.to_best[i].num * d.to_worst[i].den
                                = c[i].plus2 * d.to_worst[i].num * d.to_best[i].den

\* C14 witness: two identical alternatives, both at distance 0 from either
\* ideal, with the coefficient 0
C14_Witness ==
    /\ engine # None
    /\ call.op = "calculate"
    /\ raised = "none"
    /\ Get(engine).proximity_formula = "standard"
    /\ Len(Get(engine).decision_matrix) = 2
    /\ \A i \in 1..2 :
        /\ Get(Get(engine).distances).to_best[i].num = 0
        /\ Get(Get(engine).distances).to_worst[i].num = 0
        /\ IsZeroCoefficient(Get(Get(engine).proximity_coefficients)[i])

\* the raw ratio of alternative i as the variant formula defines it, squared:
\* E-/E+ when E+ # 0, E-/max(E+) when E+ = 0 and some E+ # 0, 1 when every
\* E+ = 0
RawRatio(d, i) ==
    LET largest == CHOOSE k \in DOMAIN d.to_best :
                        \A h \in DOMAIN d.to_best : FracLeq(d.to_best[h], d.to_best[k])
    IN IF d.to_best[i].num # 0
       THEN Frac(d.to_worst[i].num * d.to_best[i].den,
                 d.to_worst[i].den * d.to_best[i].num)
       ELSE IF \E k \in DOMAIN d.to_best : d.to_best[k].num # 0
            THEN Frac(d.to_worst[i].num * d.to_best[largest].den,
                      d.to_worst[i].den * d.to_best[largest].num)
            ELSE Frac(1, 1)

\* the calls that compute the coefficients
ProximityCalls == {"calculate_proximity", "get_ranking", "calculate"}

\* C15: with the variant formula the computation of the coefficients returns
\* and stores them; the largest coefficient is 1, every coefficient lies in
\* [0,1] and coefficient i is raw_i / max_k raw_k.
C15_VariantMaxIsOne ==
    (engine # None /\ Get(engine).proximity_formula = "variant")
        => /\ call.op \in ProximityCalls
                => raised = "none" /\ Get(engine).proximity_coefficients # None
           /\ Get(engine).proximity_coefficients # None =>
              LET c == Get(Get(engine).proximity_coefficients)
                  d == Get(Get(engine).distances)
                  top == CHOOSE k \in DOMAIN c :
                            \A h \in DOMAIN c :
                                FracLeq(RawRatio(d, h), RawRatio(d, k))
              IN /\ Len(c) = Len(Get(engine).decision_matrix)
                 /\ \A i \in DOMAIN c : c[i].den > 0 /\ 0 <= c[i].num /\ c[i].num <= c[i].den
                 /\ \E i \in DOMAIN c : c[i].num = c[i].den
                 /\ \A i \in DOMAIN c :
                        c[i].num * RawRatio(d, i).den * RawRatio(d, top).num
                            = c[i].den * RawRatio(d, i).num * RawRatio(d, top).den

\* C15 witness: a variant calculation in which one alternative is at distance 0
\* from the ideal best, another is not, and some coefficient is below 1
C15_Witness ==
    /\ engine # None
    /\ call.op = "calculate"
    /\ raised = "none"
    /\ Get(engine).proximity_formula = "variant"
    /\ \E i \in DOMAIN Get(engine).decision_matrix :
            Get(Get(engine).distances).to_best[i].num = 0
    /\ \E i \in DOMAIN Get(engine).decision_matrix :
            Get(Get(engine).distances).to_best[i].num # 0
    /\ \E i \in DOMAIN Get(engine).decision_matrix :
            /\ Get(Get(engine).proximity_coefficients)[i].num > 0
            /\ Get(Get(engine).proximity_coefficients)[i].num
                    < Get(Get(engine).proximity_coefficients)[i].den

\* r lists every index of 1..m exactly once
IsPermutation(r, m) ==
    /\ Len(r) = m
    /\ \A i \in 1..m : \E k \in DOMAIN r : r[k] = i
    /\ \A h \in DOMAIN r : \A k \in DOMAIN r : h # k => r[h] # r[k]

\* C16: the stored ranking is a permutation of the alternatives along which
\* the coefficients never increase; ranked_results lists every alternative
\* once, rank = position, percentage = coefficient x 100, and best_alternative
\* has the largest coefficient.
C16_RankingDescending ==
    /\ (engine # None /\ Get(engine).ranking # None)
        => LET r == Get(Get(engine).ranking)
               c == Get(Get(engine).proximity_coefficients)
           IN /\ IsPermutation(r, Len(Get(engine).decision_matrix))
              /\ \A k \in 1..(Len(r) - 1) : CoefLeq(c[r[k + 1]], c[r[k]])
    /\ (engine # None /\ call.op = "get_results_dict" /\ raised = "none")
        => LET self == Get(engine)
               c == Get(self.proximity_coefficients)
               rr == Get(out).ranked_results
           IN /\ IsPermutation([k \in DOMAIN rr |-> rr[k].alternative],
                               Len(self.decision_matrix))
              /\ \A k \in DOMAIN rr :
                    /\ rr[k].rank = k
                    /\ rr[k].coefficient = c[rr[k].alternative]
                    /\ rr[k].percentage.times = 100
                    /\ rr[k].percentage.coefficient = c[rr[k].alternative]
                    /\ CoefLeq(rr[k].coefficient, c[Get(out).best_alternative])
              /\ \A k \in 1..(Len(rr) - 1) :
                    CoefLeq(rr[k + 1].coefficient, rr[k].coefficient)
              /\ Get(out).best_coefficient = c[Get(out).best_alternative]

\* C16 witness: results of three alternatives whose coefficients differ, the
\* second alternative first and the first one last
C16_Witness ==
    /\ engine # None
    /\ call.op = "get_results_dict"
    /\ raised = "none"
    /\ Len(Get(out).ranked_results) = 3
    /\ Get(out).ranked_results[1].alternative = 2
    /\ Get(out).ranked_results[3].alternative = 1
    /\ ~CoefLeq(Get(out).ranked_results[1].coefficient,
                Get(out).ranked_results[2].coefficient)
    /\ ~CoefLeq(Get(out).ranked_results[2].coefficient,
                Get(out).ranked_results[3].coefficient)

\* the coefficients calculate() stores on the engine self once the value of
\* alternative i on criterion j is v, everything else as it is
CoefficientsWith(self, i, j, v) ==
    Get(Calculated(
          NewEngine([self.decision_matrix EXCEPT ![i][j] = v],
                    [k \in DOMAIN self.weights.num |->
                        Frac(self.weights.num[k], self.weights.den)],
                    self.criteria_types, self.alternative_names,
                    self.criteria_names, self.proximity_formula)
        ).self.proximity_coefficients)

\* raising the value of any alternative on any criterion moves that
\* alternative's coefficient in the criterion's direction, or leaves it
MonotoneAt(self) ==
    LET c == Get(self.proximity_coefficients)
    IN \A i \in DOMAIN self.decision_matrix :
         \A j \in DOMAIN self.criteria_types :
           \A v \in Levels :
             v > self.decision_matrix[i][j] =>
                IF self.criteria_types[j] = 1
                THEN CoefLeq(c[i], CoefficientsWith(self, i, j, v)[i])
                ELSE CoefLeq(CoefficientsWith(self, i, j, v)[i], c[i])

\* C17: for either formula, raising one alternative's value on a Beneficial
\* criterion never lowers its coefficient, and on a Cost criterion never
\* raises it, everything else fixed.
C17_Monotone ==
    (engine # None /\ call.op = "calculate" /\ raised = "none")
        => MonotoneAt(Get(engine))

\* C17, the part that holds: the same for the standard formula.
C17_MonotoneStandard ==
    (engine # None /\ call.op = "calculate" /\ raised = "none"
        /\ Get(engine).proximity_formula = "standard")
        => MonotoneAt(Get(engine))

\* ============================================ claims on ProfileProcessor ====

\* some value the matrix holds lies below min_threshold or above max_threshold
OutOfRange(df, min_threshold, max_threshold) ==
    \E p \in CellsOf(df) \ df.isna :
        \/ df.values[p[1]][p[2]] < min_threshold
        \/ df.values[p[1]][p[2]] > max_threshold

\* the constructor called with a refuses it and leaves no processor
RefusedData(a) ==
    (\/ Range(a.profiles_df.columns) # Range(a.activities_df.columns)
     \/ OutOfRange(a.profiles_df, a.min_threshold, a.max_threshold)
     \/ OutOfRange(a.activities_df, a.min_threshold, a.max_threshold))
        => (raised' = "ValueError" /\ processor' = None)

\* every value of the matrices of a processor lies in its interval
DataInRange(pr) ==
    /\ ~OutOfRange(pr.profiles_df, pr.min_threshold, pr.max_threshold)
    /\ ~OutOfRange(pr.activities_df, pr.min_threshold, pr.max_threshold)

\* C18: constructing a ProfileProcessor raises ValueError and leaves no
\* processor whenever the two matrices differ in their sets of skill columns or
\* either holds a value below min_threshold or above max_threshold; the
\* matrices of every processor that exists hold values of
\* [min_threshold, max_threshold] only.
C18_ConstructorChecksData ==
    [][call'.op = "ProfileProcessor" =>
        /\ RefusedData(call'.arg)
        /\ processor' # None => DataInRange(Get(processor'))
      ]_vars

\* C18, the part that holds: the same, for matrices without an empty cell.
C18_ChecksDataWithoutEmptyCell ==
    [][(call'.op = "ProfileProcessor" /\ call'.arg.profiles_df.isna = {}
            /\ call'.arg.activities_df.isna = {}) =>
        /\ RefusedData(call'.arg)
        /\ processor' # None => DataInRange(Get(processor'))
      ]_vars

\* a processor constructed on matrices without an empty cell, and whose
\* interval leaves some level out
C18_SomeAccepted ==
    /\ call.op = "ProfileProcessor"
    /\ processor # None
    /\ Get(processor).profiles_df.isna = {}
    /\ Get(processor).activities_df.isna = {}
    /\ Get(processor).min_threshold > 0

ResultReaders == {"get_ranking_matrix", "get_full_results_matrix"}

\* C19: TopsisEngine.get_results_dict on an engine whose ranking has not been
\* computed ends with an exception and returns nothing.
C19_EngineResultsNeedComputation ==
    [][(call'.op = "get_results_dict" /\ engine # None
            /\ Get(engine).ranking = None)
        => (raised' # "none" /\ out' = None)
      ]_vars

\* C19, the part that holds: get_ranking_matrix and get_full_results_matrix
\* raise ValueError and return nothing on a processor that stores no results,
\* and only then.
C19_MatricesNeedResults ==
    (call.op \in ResultReaders)
        => IF Get(processor).results = <<>>
           THEN raised = "ValueError" /\ out = None
           ELSE raised = "none" /\ out # None

\* a matrix asked of a processor on which every process_activity call so far
\* has failed
C19_MatrixRefused ==
    /\ call.op = "get_full_results_matrix"
    /\ raised = "ValueError"
    /\ Get(processor).results = <<>>

Processing == {"process_activity", "process_all_activities"}

\* no two rows of the activity matrix bear the same label
DistinctLabels(pr) ==
    \A h \in DOMAIN activity_names(pr) : \A k \in DOMAIN activity_names(pr) :
        h # k => activity_names(pr)[h] # activity_names(pr)[k]

\* C20: a process_activity or process_all_activities call that ends with an
\* exception leaves the stored results of the processor exactly as they were
\* before the call, so the two matrices read afterwards are what they were
\* before it.
C20_AllOrNothing ==
    [][(call'.op \in Processing /\ raised' # "none")
        => /\ Get(processor').results = Get(processor).results
           /\ get_full_results_matrix(Get(processor')) =
                get_full_results_matrix(Get(processor))
           /\ \A top_n \in TopNs :
                get_ranking_matrix(Get(processor'), top_n) =
                    get_ranking_matrix(Get(processor), top_n)
      ]_vars

\* C20, the part that holds: the same, for process_activity on its own and
\* for process_all_activities on a matrix whose rows bear distinct labels.
C20_AllOrNothingOnDistinctLabels ==
    [][(call'.op \in Processing /\ raised' # "none"
            /\ (call'.op = "process_all_activities" => DistinctLabels(Get(processor))))
        => Get(processor').results = Get(processor).results
      ]_vars

\* a failed process_all_activities call on a processor that stores the results
\* of an earlier call
C20_FailedAfterSuccess ==
    /\ call.op = "process_all_activities"
    /\ raised # "none"
    /\ DistinctLabels(Get(processor))
    /\ Len(Get(processor).results) = 2

\* a failed process_activity call on a processor that stores results
C20_ActivityFailedAfterSuccess ==
    /\ call.op = "process_activity"
    /\ raised # "none"
    /\ call.arg.activity = "a1"
    /\ Get(processor).results # <<>>

\* ================================== further claims on WeightGenerator ====

\* two weights that are numbers, and the same number
SameWeight(x, y) == x.den # 0 /\ y.den # 0 /\ x.num * y.den = y.num * x.den

SameWeights(v, w) ==
    Len(v) = Len(w) /\ \A i \in DOMAIN v : SameWeight(v[i], w[i])

\* alpha times the weights rb plus (1 - alpha) times the weights ib, over
\* their sum
Combined(alpha, rb, ib) ==
    LET c == [i \in DOMAIN rb |->
                alpha.num * rb[i].num * ib[i].den
                    + (alpha.den - alpha.num) * ib[i].num * rb[i].den]
    IN [i \in DOMAIN rb |-> Frac(c[i], SumSeq(c))]

\* a hybrid_weights call that returned, on one required level and one
\* importance score per criterion, with importance scores that do not sum to 0
HybridReturned ==
    /\ call.op = "hybrid_weights"
    /\ raised = "none"
    /\ Len(call.arg.required_levels) = Len(call.arg.importance_scores)
    /\ Len(call.arg.required_levels) > 0
    /\ SumSeq(call.arg.importance_scores) # 0

\* C21: hybrid_weights returns alpha times the weights of
\* requirement_based_weights (every level raised to the floor 0.1, then
\* normalized) plus (1 - alpha) times those of importance_based_weights,
\* renormalized; with alpha = 1 it returns what requirement_based_weights
\* returns, with alpha = 0 what importance_based_weights returns.
C21_HybridCombines ==
    HybridReturned
        => LET a == call.arg
               rb == requirement_based_weights(a.required_levels, 0)
               ib == importance_based_weights(a.importance_scores)
           IN /\ SameWeights(Get(out), Combined(a.alpha, rb, ib))
              /\ a.alpha.num = a.alpha.den => SameWeights(Get(out), rb)
              /\ a.alpha.num = 0 => SameWeights(Get(out), ib)

\* C21, the part that holds: the same, when no required level lies below the
\* floor.
C21_HybridCombinesAboveFloor ==
    (HybridReturned /\ \A i \in DOMAIN call.arg.required_levels :
                            10 * call.arg.required_levels[i] >= 1)
        => LET a == call.arg
               rb == requirement_based_weights(a.required_levels, 0)
               ib == importance_based_weights(a.importance_scores)
           IN /\ SameWeights(Get(out), Combined(a.alpha, rb, ib))
              /\ a.alpha.num = a.alpha.den => SameWeights(Get(out), rb)
              /\ a.alpha.num = 0 => SameWeights(Get(out), ib)

\* a hybrid of two criteria with unequal importance scores, no level below
\* the floor, and alpha strictly between 0 and 1
C21_HybridAboveFloor ==
    /\ HybridReturned
    /\ Len(call.arg.required_levels) = 2
    /\ \A i \in DOMAIN call.arg.required_levels : call.arg.required_levels[i] >= 1
    /\ call.arg.importance_scores[1] # call.arg.importance_scores[2]
    /\ 0 < call.arg.alpha.num /\ call.arg.alpha.num < call.arg.alpha.den

\* ===================================== further claims on TopsisEngine ====

\* C22, its case: with the variant formula every raw ratio is 0.  No engine
\* reaches it: an alternative that attains the ideal best of the criterion of
\* the widest range lies at least that range away from the ideal worst, so
\* some raw ratio is positive whenever the distances are stored.
C22_SomeRawRatioPositive ==
    (engine # None /\ Get(engine).proximity_formula = "variant"
        /\ Get(engine).distances # None)
        => \E i \in DOMAIN Get(Get(engine).distances).to_best :
                raw_proximity(Get(Get(engine).distances))[i].num > 0

\* v is the largest value of the column
IsColumnMax(v, column) ==
    (\E i \in DOMAIN column : column[i] = v) /\ \A i \in DOMAIN column : column[i] <= v

\* v is the smallest value of the column
IsColumnMin(v, column) ==
    (\E i \in DOMAIN column : column[i] = v) /\ \A i \in DOMAIN column : column[i] >= v

\* C26: once the ideal solutions are stored, ideal_best[j] is the maximum and
\* ideal_worst[j] the minimum of column j of the weighted matrix when
\* criterion j is Beneficial, and the reverse when it is Cost; every weighted
\* value of column j lies between ideal_worst[j] and ideal_best[j]; and once
\* the distances are stored, an alternative has distance 0 to the ideal best
\* exactly when its weighted value equals ideal_best[j] on every criterion j.
C26_IdealSolutions ==
    (engine # None /\ Get(engine).ideal # None)
        => LET self == Get(engine)
               t == Get(self.weighted_matrix).num
               ideal == Get(self.ideal)
           IN /\ \A j \in DOMAIN self.criteria_types :
                    /\ IF self.criteria_types[j] = 1
                       THEN /\ IsColumnMax(ideal.best[j], Column(t, j))
                            /\ IsColumnMin(ideal.worst[j], Column(t, j))
                       ELSE /\ IsColumnMin(ideal.best[j], Column(t, j))
                            /\ IsColumnMax(ideal.worst[j], Column(t, j))
                    /\ \A i \in DOMAIN t :
                        \/ ideal.worst[j] <= t[i][j] /\ t[i][j] <= ideal.best[j]
                        \/ ideal.best[j] <= t[i][j] /\ t[i][j] <= ideal.worst[j]
              /\ self.distances # None =>
                    \A i \in DOMAIN t :
                        Get(self.distances).to_best[i].num = 0
                            <=> \A j \in DOMAIN self.criteria_types :
                                    t[i][j] = ideal.best[j]

\* C26 witness: distances stored for a Beneficial and a Cost criterion of
\* non-zero weight; one alternative is at distance 0 from the ideal best,
\* another is not and misses it on the Cost criterion only
C26_Witness ==
    /\ engine # None
    /\ call.op = "calculate_distances"
    /\ Get(engine).distances # None
    /\ Get(engine).criteria_types = <<1, 0>>
    /\ LET t == Get(Get(engine).weighted_matrix).num
           ideal == Get(Get(engine).ideal)
           d == Get(Get(engine).distances)
       IN /\ ideal.best[1] > ideal.worst[1]
          /\ ideal.best[2] < ideal.worst[2]
          /\ \E i \in DOMAIN t : d.to_best[i].num = 0
          /\ \E i \in DOMAIN t : t[i][1] = ideal.best[1] /\ d.to_best[i].num # 0

\* the engine as constructed, before any stage ran
Unstaged(self) ==
    [self EXCEPT !.normalized_matrix = None, !.weighted_matrix = None,
                 !.ideal = None, !.distances = None,
                 !.proximity_coefficients = None, !.ranking = None]

\* every stored result of self is the one the in-order pipeline stores in ref
StoredAsIn(self, ref) ==
    /\ self.normalized_matrix \in {None, ref.normalized_matrix}
    /\ self.weighted_matrix \in {None, ref.weighted_matrix}
    /\ self.ideal \in {None, ref.ideal}
    /\ self.distances \in {None, ref.distances}
    /\ self.proximity_coefficients \in {None, ref.proximity_coefficients}
    /\ self.ranking \in {None, ref.ranking}

\* C27: on an engine with a known proximity formula, whatever stage methods
\* were called and in whatever order, a stored stage result comes with the
\* results of the stages before it, the stored results are those of the
\* in-order pipeline, ranking is stored whenever proximity_coefficients is,
\* and get_results_dict returns the ranked results of the in-order pipeline.
C27_StagesInAnyOrder ==
    (engine # None /\ Get(engine).proximity_formula \in {"standard", "variant"})
        => LET self == Get(engine)
               ref == Calculated(Unstaged(self)).self
           IN /\ self.weighted_matrix # None => self.normalized_matrix # None
              /\ self.ideal # None => self.weighted_matrix # None
              /\ self.distances # None => self.ideal # None
              /\ self.proximity_coefficients # None => self.distances # None
              /\ self.ranking # None => self.proximity_coefficients # None
              /\ StoredAsIn(self, ref)
              /\ self.proximity_coefficients # None => self.ranking # None
              /\ call.op = "get_results_dict"
                    => raised = "none" /\ out = Some(results_dict(ref))

\* c1 and c2 are exactly equal coefficients
Tied(c1, c2) == CoefLeq(c1, c2) /\ CoefLeq(c2, c1)

\* C23: whenever two alternatives have exactly equal proximity coefficients,
\* the one with the smaller input index stands earlier in ranking and in
\* ranked_results.
C23_TiesByInputOrder ==
    (engine # None /\ Get(engine).ranking # None)
        => LET ranking == Get(Get(engine).ranking)
               c == Get(Get(engine).proximity_coefficients)
               ranked == results_dict(Get(engine)).ranked_results
           IN \A a \in DOMAIN ranking : \A b \in DOMAIN ranking :
                (a < b /\ Tied(c[ranking[a]], c[ranking[b]]))
                    => /\ ranking[a] < ranking[b]
                       /\ ranked[a].alternative =
                            Get(engine).alternative_names[ranking[a]]

\* C23, what the code does: of two alternatives with equal coefficients the
\* one with the larger input index stands earlier.
C23_TiesByReverseInputOrder ==
    (engine # None /\ Get(engine).ranking # None)
        => LET ranking == Get(Get(engine).ranking)
               c == Get(Get(engine).proximity_coefficients)
           IN \A a \in DOMAIN ranking : \A b \in DOMAIN ranking :
                (a < b /\ Tied(c[ranking[a]], c[ranking[b]]))
                    => ranking[a] > ranking[b]

\* a ranking of three alternatives of which exactly two are tied
C23_SomeTie ==
    /\ engine # None
    /\ Get(engine).ranking # None
    /\ Len(Get(Get(engine).ranking)) = 3
    /\ LET c == Get(Get(engine).proximity_coefficients)
       IN Tied(c[1], c[3]) /\ ~Tied(c[1], c[2])

\* ================================ further claims on OptimalAssignment ====

\* the pairs <<activity, profile>> of an assignment
PairsOf(asg) == {<<asg[k].activity, asg[k].profile>> : k \in DOMAIN asg}

\* what the solver stores and what its accessors return come from the
\* solution `last`, the one the most recent successful solve returned
StoredFrom(last) ==
    /\ assignment = Some(last.assignment)
    /\ assignment_method = last.method
    /\ total_score = Some(last.total_score)
    /\ (call.op = "get_assignment_matrix" /\ raised = "none") =>
            \A a \in 1..n_activities : \A p \in 1..n_profiles :
                Get(out).value[a][p] =
                    (IF <<a, p>> \in PairsOf(last.assignment) THEN 1 ELSE 0)
    /\ (call.op = "get_assignment_scores" /\ raised = "none") =>
            \A a \in 1..n_activities : \A p \in 1..n_profiles :
                Get(out).value[a][p] =
                    (IF <<a, p>> \in PairsOf(last.assignment)
                     THEN full_results_df[a][p] ELSE 0)

\* C24: after any sequence of solve, solve_hungarian and solve_greedy calls
\* the stored assignment, assignment_method and total_score are those of the
\* most recent successful solve, and get_assignment_matrix and
\* get_assignment_scores show the pairs of that solve only; while no solve has
\* succeeded nothing is stored.
C24_StoredFromLastSolve ==
    IF solved
    THEN StoredFrom(Get(result))
    ELSE assignment = None /\ assignment_method = "None" /\ total_score = None

\* C24, the part that holds: the same, on a score matrix with at least one
\* activity and one profile.
C24_StoredFromLastSolveWhenPairs ==
    (n_activities >= 1 /\ n_profiles >= 1) => C24_StoredFromLastSolve

\* the scores read after a greedy solve on a matrix that the exact method
\* solves with a larger total
C24_ReadAfterSolve ==
    /\ call.op = "get_assignment_scores"
    /\ raised = "none"
    /\ assignment_method = "greedy"
    /\ \E o \in solve_hungarian : o.total_score > Get(total_score)

SolveCalls == {"solve_hungarian", "solve_greedy", "solve"}

\* C28: when solve_hungarian or solve_greedy returns (called directly or
\* through solve), every pair of the returned assignment records the entry of
\* the score matrix at its activity and profile and their positions in the
\* matrix, total_score is the sum of the recorded scores, n_assignments the
\* number of pairs, average_score times n_assignments is total_score, the
\* stored total_score is the returned one, and the stored score matrix is the
\* one before the call.
C28_ReturnedResult ==
    [][(call'.op \in SolveCalls /\ ran' # <<>> /\ raised' = "none")
        => LET r == Get(result')
               asg == r.assignment
           IN /\ \A k \in DOMAIN asg :
                    /\ asg[k].activity \in 1..n_activities
                    /\ asg[k].profile \in 1..n_profiles
                    /\ asg[k].score = full_results_df[asg[k].activity][asg[k].profile]
                    /\ asg[k].activity_idx = asg[k].activity
                    /\ asg[k].profile_idx = asg[k].profile
              /\ r.total_score = SumSeq(Scores(asg))
              /\ r.n_assignments = Cardinality(PairsOf(asg))
              /\ r.n_assignments = Len(asg)
              /\ r.average_score.num * r.n_assignments
                    = r.total_score * r.average_score.den
              /\ r.average_score.den # 0
              /\ total_score' = Some(r.total_score)
              /\ assignment' = Some(asg)
              /\ full_results_df' = full_results_df]_vars

\* C28 witness: a solver returned two pairs off the diagonal with a non-zero
\* total on a matrix of differing scores
C28_Witness ==
    /\ call.op \in SolveCalls /\ ran # <<>> /\ raised = "none"
    /\ result # None
    /\ LET r == Get(result)
       IN /\ r.n_assignments = 2
          /\ r.total_score = 2
          /\ \E k \in DOMAIN r.assignment :
                r.assignment[k].activity # r.assignment[k].profile
          /\ \E a \in 1..n_activities : \E p \in 1..n_profiles :
                full_results_df[a][p] = 0

\* C29: on a score matrix without activities or without profiles, solve()
\* with no forced method returns n_assignments = 0, total_score = 0 and
\* average_score = 0, and print_results and save_results called after a solve
\* return as well.
C29_EmptySolveCompletes ==
    (n_activities = 0 \/ n_profiles = 0)
        => /\ (call.op = "solve" /\ call.arg = "None")
                => /\ raised = "none"
                   /\ result # None
                   /\ Get(result).n_assignments = 0
                   /\ Get(result).total_score = 0
                   /\ Get(result).average_score.num = 0
           /\ (call.op \in {"print_results", "save_results"} /\ assignment # None)
                => raised = "none"

\* ================================== further claims on ProfileProcessor ====

\* the coefficients the engine computes for the profiles of pr with the
\* directions and weights of the activity named a
CoefficientsFor(pr, a, weights, weight_strategy) ==
    LET e == EngineArguments(pr, a, weights, weight_strategy)
    IN Get(Calculated(NewEngine(e.decision_matrix, e.weights, e.criteria_types,
                                e.alternative_names, e.criteria_names,
                                pr.proximity_formula)).self.proximity_coefficients)

\* matrix is what get_full_results_matrix must return on pr once the call
\* process_all_activities(weights, weight_strategy) has returned
FullResultsOf(matrix, pr, weights, weight_strategy) ==
    /\ Len(matrix) = Len(activity_names(pr))
    /\ {matrix[k].activity : k \in DOMAIN matrix} = Range(activity_names(pr))
    /\ \A k \in DOMAIN matrix :
        /\ Cardinality(DOMAIN matrix[k].row) = Len(profile_names(pr))
        /\ \A i \in DOMAIN profile_names(pr) :
            /\ profile_names(pr)[i] \in DOMAIN matrix[k].row
            /\ matrix[k].row[profile_names(pr)[i]] =
                 CoefficientsFor(pr, matrix[k].activity, weights, weight_strategy)[i]

\* C25: get_full_results_matrix called after process_all_activities has
\* returned gives one row per activity and one column per profile, and its
\* entry (a, p) is the coefficient the engine computed for profile p with the
\* directions and weights of a, wherever p stands in the ranking of a.
C25_FullResultsMatrix ==
    [][(call.op = "process_all_activities" /\ raised = "none"
            /\ call'.op = "get_full_results_matrix")
        => /\ raised' = "none"
           /\ FullResultsOf(Get(out'), Get(processor), call.arg.weights,
                            call.arg.weight_strategy)
      ]_vars

\* no two profiles bear the same name
DistinctProfiles(pr) ==
    \A h \in DOMAIN profile_names(pr) : \A k \in DOMAIN profile_names(pr) :
        h # k => profile_names(pr)[h] # profile_names(pr)[k]

\* C25, the part that holds: the same, when no two profiles bear the same name.
C25_FullResultsMatrixOfDistinctProfiles ==
    [][(call.op = "process_all_activities" /\ raised = "none"
            /\ DistinctProfiles(Get(processor))
            /\ call'.op = "get_full_results_matrix")
        => /\ raised' = "none"
           /\ FullResultsOf(Get(out'), Get(processor), call.arg.weights,
                            call.arg.weight_strategy)
      ]_vars

\* a matrix of two activities and two profiles in which "p1" is ranked first
\* for one activity and last for the other
C25_RanksDiffer ==
    /\ call.op = "get_full_results_matrix"
    /\ raised = "none"
    /\ Len(Get(out)) = 2
    /\ Len(profile_names(Get(processor))) = 2
    /\ DistinctProfiles(Get(processor))
    /\ LET r == Get(processor).results
       IN /\ r[1].results.ranked_results[1].alternative = "p1"
          /\ r[2].results.ranked_results[2].alternative = "p1"
          /\ Get(out)[1].row["p1"] # Get(out)[1].row["p2"]

\* ================================= further claims on SkillTransformer ====

\* C30: a SkillTransformer always has min_threshold <= threshold <=
\* max_threshold: a set_threshold that ends with an error leaves the stored
\* threshold as it was, and determine_criteria_types classifies against a
\* threshold within the range.
C30_ThresholdStaysInRange ==
    [][/\ transformer' # None => ThresholdValid(Get(transformer'))
       /\ (call'.op = "set_threshold" /\ raised' # "none")
            => transformer' = transformer
       /\ (call'.op = "determine_criteria_types" /\ out' # None)
            => \E threshold \in Get(transformer').min_threshold
                                 ..Get(transformer').max_threshold :
                    Get(out') = determine_criteria_types(call'.arg, threshold)
      ]_vars

====
